---- MODULE Spec2Model ----
(***************************************************************************)
(* Model of ch-backup's table backup and restore logic                      *)
(* (src/ch_backup/logic/table.py, class TableBackup).                       *)
(*                                                                         *)
(* SpecBackup  : TableBackup.backup running against a DB whose tables are   *)
(*               concurrently altered, dropped and created by users.        *)
(* SpecRestore : TableBackup.restore, run up to MaxRuns times in a row on   *)
(*               the same DB and restore progress index.                    *)
(***************************************************************************)
EXTENDS Integers, Sequences, FiniteSets, TLC

\* ------------------------------------------------------------------------
\* Bounds
\* ------------------------------------------------------------------------
\* number of concurrent user DDL operations during one backup
MaxEnvOps == 2
\* distinct non-empty contents a metadata file can take
MaxContent == 2
\* number of consecutive runs of restore on the same DB and progress index
MaxRuns == 2

\* ------------------------------------------------------------------------
\* The fixed universe of the backup model
\* ------------------------------------------------------------------------
\* Optional[...] value None
None == -1
NoTable == "-"

Dbs == <<"db1", "db2">>
Tables == {"t1", "t2", "t3"}
\* order in which ch_ctl.get_tables lists the tables
TableOrder == <<"t1", "t2", "t3">>
DbOf == [t1 |-> "db1", t2 |-> "db1", t3 |-> "db2"]
Engine == [t1 |-> "MergeTree", t2 |-> "Log", t3 |-> "Log"]
\* data parts of a table, in the order of table.paths_with_disks / list_frozen_parts
PartsOf == [t1 |-> <<"p1", "p2", "p3">>, t2 |-> <<>>, t3 |-> <<>>]
Parts == {"p1", "p2", "p3"}
DiskOf == [p1 |-> "default", p2 |-> "default", p3 |-> "s3"]
Disks == <<"default", "s3">>
DiskType == [default |-> "local", s3 |-> "s3"]
\* checksum of every frozen part
Checksum == [p \in Parts |-> 1]
\* dedup indexes: part -> checksum of the entry found in previous backups
\* (None: no entry)
NoDedup == [p \in Parts |-> None]
\* p1 is found with the same checksum, p2 with another one
DedupFirst == [p \in Parts |-> IF p = "p1" THEN 1 ELSE IF p = "p2" THEN 2 ELSE None]
\* p2 is found with the same checksum
DedupSecond == [p \in Parts |-> IF p = "p2" THEN 1 ELSE None]
\* disk.cache_path of every disk: no disk has a local cache
NoCache == [default |-> "", s3 |-> ""]
\* disk.cache_path of every disk: the s3 disk has a local cache
S3Cache == [default |-> "", s3 |-> "/var/lib/clickhouse/disks/s3/cache"]
\* the arguments and configurations backup() is started with
Configs ==
    { [schema_only |-> TRUE, validate |-> FALSE, dedup |-> NoDedup, external |-> {},
       cache_path |-> NoCache],
      [schema_only |-> FALSE, validate |-> TRUE, dedup |-> DedupFirst, external |-> {},
       cache_path |-> NoCache],
      [schema_only |-> FALSE, validate |-> TRUE, dedup |-> NoDedup, external |-> {"db2"},
       cache_path |-> NoCache],
      [schema_only |-> FALSE, validate |-> FALSE, dedup |-> DedupSecond, external |-> {},
       cache_path |-> S3Cache] }

Range(s) == {s[i] : i \in DOMAIN s}

\* ------------------------------------------------------------------------
\* The fixed universe of the restore model: the backup being restored
\* ------------------------------------------------------------------------
RTables == {"a", "b", "d", "s", "v"}
\* the tables of the backup metadata, in the order of
\* context.backup_meta.get_tables(db.name) over the databases; x is a table of
\* a database with an external engine
BackupMeta == <<"x", "v", "s", "b", "d", "a">>
ExternalDbTables == {"x"}
\* restore(): lines 121-124, the metadata of the tables of the databases
\* that do not have an external engine
MetaOrder == SelectSeq(BackupMeta, LAMBDA t : t \notin ExternalDbTables)
REngine ==
    [a |-> "MergeTree", b |-> "ReplicatedMergeTree", d |-> "Dictionary",
     s |-> "Distributed", v |-> "MaterializedView"]
\* the tables whose create statement names a Replicated engine: b, and the
\* materialized view v, which stores its rows in a replicated inner table
ReplicatedStatements == {"b", "v"}
\* versions of the DB server, as major * 100 + minor
ChVersions == {2103, 2108}
\* TableMetadata.get_parts()
RPartsOf == [a |-> <<"q1", "q2">>, b |-> <<"q3">>, d |-> <<>>, s |-> <<>>, v |-> <<>>]
RParts == {"q1", "q2", "q3"}
RDiskOf == [q1 |-> "default", q2 |-> "object", q3 |-> "s3rev"]
\* context.backup_meta.s3_revisions: disk -> revision
S3Revisions == [s3rev |-> 5, s3b |-> 7]
S3RevisionDisks == <<"s3rev", "s3b">>
\* context.backup_meta.cloud_storage.disks
CloudStorageDisks == {"object"}
\* the create statement stored in the backup for every table
BackupStatement == [ver |-> 1, verb |-> "CREATE", uuid |-> FALSE]
\* a table absent from the DB
NoSchema == [exists |-> FALSE, ver |-> 0, uuid |-> FALSE]

\* arguments restore() is called with
RestoreArgs ==
    { [keep_going |-> FALSE, schema_only |-> FALSE, skip_cloud_storage |-> FALSE,
       cloud_storage_latest |-> FALSE, clean_zookeeper |-> FALSE,
       tables |-> <<>>, exclude_tables |-> <<>>],
      [keep_going |-> TRUE, schema_only |-> FALSE, skip_cloud_storage |-> FALSE,
       cloud_storage_latest |-> TRUE, clean_zookeeper |-> FALSE,
       tables |-> <<>>, exclude_tables |-> <<>>],
      [keep_going |-> TRUE, schema_only |-> TRUE, skip_cloud_storage |-> FALSE,
       cloud_storage_latest |-> FALSE, clean_zookeeper |-> TRUE,
       tables |-> <<>>, exclude_tables |-> <<>>],
      [keep_going |-> FALSE, schema_only |-> FALSE, skip_cloud_storage |-> TRUE,
       cloud_storage_latest |-> FALSE, clean_zookeeper |-> FALSE,
       tables |-> <<>>, exclude_tables |-> <<>>],
      [keep_going |-> TRUE, schema_only |-> FALSE, skip_cloud_storage |-> FALSE,
       cloud_storage_latest |-> FALSE, clean_zookeeper |-> FALSE,
       tables |-> <<"a", "d", "v">>, exclude_tables |-> <<"v">>],
      [keep_going |-> FALSE, schema_only |-> FALSE, skip_cloud_storage |-> FALSE,
       cloud_storage_latest |-> FALSE, clean_zookeeper |-> FALSE,
       tables |-> <<"a", "zz">>, exclude_tables |-> <<>>],
      [keep_going |-> TRUE, schema_only |-> FALSE, skip_cloud_storage |-> FALSE,
       cloud_storage_latest |-> FALSE, clean_zookeeper |-> FALSE,
       tables |-> <<"a", "x">>, exclude_tables |-> <<"a">>] }

\* dependencies between the tables: <<t, u>> means t cannot be created
\* while u does not exist
DepsChoices ==
    { {},
      {<<"v", "a">>},
      {<<"a", "d">>},
      {<<"a", "d">>, <<"d", "v">>},
      {<<"b", "a">>, <<"a", "d">>, <<"d", "v">>},
      {<<"b", "v">>, <<"v", "b">>} }

\* tables whose creation may fail whatever exists
FaultyChoices == { {}, {"b"}, {"a", "v"} }

\* context.zk_config['hosts']
ZkHostsChoices == { {}, {"zk1"} }

\* the DB restore() starts on
ExistingChoices ==
    { [t \in RTables |-> NoSchema],
      [t \in RTables |-> IF t = "a" THEN [exists |-> TRUE, ver |-> 2, uuid |-> TRUE]
                         ELSE NoSchema],
      [t \in RTables |-> IF t = "a" THEN [exists |-> TRUE, ver |-> 1, uuid |-> TRUE]
                         ELSE IF t = "d" THEN [exists |-> TRUE, ver |-> 2, uuid |-> FALSE]
                         ELSE NoSchema] }

VARIABLES
    \* --- the DB and its filesystem
    exists,          \* tables currently present in the DB
    file,            \* metadata file of each table: [present, mtime, content]
    clock,           \* filesystem clock, source of mtimes
    envOps,          \* number of user DDL operations so far
    frozen,          \* parts present in the shadow directories
    \* --- configuration and arguments of backup()
    schema_only,
    validate,        \* config['validate_part_after_upload']
    cache_path,      \* disk.cache_path of every disk of ch_ctl.get_disks()
    dedup,           \* dedup_info
    external,        \* databases with an external engine
    \* --- position and locals of backup() / _backup() / _backup_table()
    pc,
    dbi,             \* index in Dbs of the database being backed up
    mtimes,          \* dict built by _collect_local_metadata_mtime
    todo,            \* tables of the second get_tables() not yet visited
    cur,             \* table being backed up
    create_statement,\* bytes returned by _load_create_statement_from_disk
    fparts,          \* frozen parts still to be processed
    table_meta,      \* parts of the TableMetadata being built
    uploaded_parts,
    error,           \* exception that left backup(), "" if none
    \* --- backup metadata and remote storage
    backup_tables,   \* context.backup_meta tables: Seq of [name, parts]
    cloud_disks,     \* context.backup_meta.cloud_storage disks
    storage_meta,    \* tables in the uploaded backup_struct.json
    storage_ddl,     \* uploaded create statements
    storage_parts,   \* uploaded data parts (submitted)
    \* --- history
    calls,           \* calls made by the orchestrator: Seq of [op, arg, res]
    disk_at_freeze,  \* content of the metadata file when the freeze step ran
    occ_skipped,     \* tables skipped by the mtime check
    not_in_mtimes,   \* tables the loop of _backup skipped: not in mtimes
    existed_at_failure \* tables that existed when their freeze_table raised

VARIABLES
    \* --- the DB restore() works on
    db_schema,       \* table -> [exists, ver, uuid]: the tables of the DB
    attached,        \* parts attached to live tables
    detached,        \* parts lying in detached/ directories
    \* --- restore progress index (context.restore_context) and its file
    restore_ctx,     \* [tables, parts, failed, disks]
    dumped_ctx,      \* what dump_state persisted last
    \* --- arguments of restore() and the environment's behaviour
    args,            \* [keep_going, schema_only, skip_cloud_storage, ...]
    deps,            \* <<t, u>>: creating t fails while u does not exist
    faulty,          \* tables whose creation may fail for other reasons
    ch_version,      \* version of the DB server, as major * 100 + minor
    zk_hosts,        \* context.zk_config['hosts']
    db_atomic,       \* databases[...].is_atomic() of the database of the tables
    meta_uuid,       \* tables whose TableMetadata has a uuid
    \* --- locals of restore() and _restore_table_objects()
    tables_meta,     \* filtered List[TableMetadata]
    stmt,            \* table.create_statement of the Table objects
    unprocessed,     \* deque of _restore_table_objects
    errors,          \* tables of the (table, exception) pairs in errors
    failed_tables,   \* list returned by _restore_tables
    data_todo,       \* tables _restore_data still has to visit
    attach_parts,    \* attach_parts of _restore_data, between the fetch loop and wait()
    \* --- history
    run,             \* number of the current restore run
    queue0,          \* tables handed to _restore_table_objects in this run
    prev_run         \* [clean, db_schema, attached, detached] at the end of the previous run

VARIABLES
    \* --- the command line (cli.py)
    storage_backups, \* backups in the storage: set of [name, state, start_time]
    cli_result,      \* outcome of the last command: [command, name, resolved, status, msg, out]
    commands         \* number of commands run so far

cvars == <<storage_backups, cli_result, commands>>

\* no command has been run
NoResult ==
    [command |-> "", name |-> "", resolved |-> "", status |-> "", msg |-> "", out |-> <<>>]

\* the command-line variables while backup() or restore() is modelled
CliIdle ==
    /\ storage_backups = {}
    /\ cli_result = NoResult
    /\ commands = 0

VARIABLES
    \* --- a pipeline (storage/async_pipeline/pipelines.py)
    pipeline,        \* arguments: [kind, encrypt, delete_after, files, remote_paths]
    stages,          \* the chain built by PipelineBuilder, first stage first
    queues,          \* items waiting in the input queue of every stage
    stage_done,      \* stages that have finished
    emitted,         \* chunks emitted by the reading stage
    uploaded,        \* chunks received by the storage
    local_files,     \* local files that exist
    remote,          \* the upload: "none", "multipart", "complete", "aborted"
    storage_objects, \* remote paths of the objects the storage holds
    received,        \* chunks received by the last stage of a download
    returned         \* value the pipeline function returned

pvars == <<pipeline, stages, queues, stage_done, emitted, uploaded, local_files, remote,
           storage_objects, received, returned>>

\* return value of a pipeline function that returns nothing
NoData == -1

\* the pipeline variables while no pipeline is modelled
PipelineIdle ==
    /\ pipeline = [kind |-> "", encrypt |-> FALSE, delete_after |-> FALSE, files |-> {},
                   remote_paths |-> {}]
    /\ stages = <<>>
    /\ queues = <<>>
    /\ stage_done = <<>>
    /\ emitted = 0
    /\ uploaded = 0
    /\ local_files = {}
    /\ remote = "none"
    /\ storage_objects = {}
    /\ received = 0
    /\ returned = NoData

\* configuration and metadata restore() reads
rcfg == <<zk_hosts, db_atomic, meta_uuid>>

rvars == <<db_schema, attached, detached, restore_ctx, dumped_ctx, args, deps, faulty, ch_version,
                   rcfg,
           tables_meta, stmt, unprocessed, errors, failed_tables, data_todo,
                   attach_parts, run, queue0,
           prev_run>>

\* the variables only the backup uses
bonly == <<exists, file, clock, envOps, frozen, validate, cache_path, dedup, external, dbi,
           mtimes, todo,
           cur, create_statement, fparts, table_meta, uploaded_parts, backup_tables,
           cloud_disks, storage_meta, storage_ddl, storage_parts, disk_at_freeze,
           occ_skipped, not_in_mtimes, existed_at_failure>>

envVars == <<exists, file, clock, envOps, frozen>>
cfgVars == <<schema_only, validate, cache_path, dedup, external>>
locVars == <<pc, dbi, mtimes, todo, cur, create_statement, fparts, table_meta,
             uploaded_parts, error>>
outVars == <<backup_tables, cloud_disks, storage_meta, storage_ddl, storage_parts>>
histVars == <<calls, disk_at_freeze, occ_skipped, not_in_mtimes, existed_at_failure>>
bvars == <<envVars, cfgVars, locVars, outVars, histVars>>

vars == <<bvars, rvars, cvars, pvars>>

Call(op, arg, res) == [op |-> op, arg |-> arg, res |-> res]
\* positions in the call history of the calls op(arg)
CallIdx(op, arg) == {i \in DOMAIN calls : calls[i].op = op /\ calls[i].arg = arg}

\* ------------------------------------------------------------------------
\* Collaborators (ch_ctl, filesystem, schema helpers)
\* ------------------------------------------------------------------------
is_merge_tree(engine) == engine \in {"MergeTree", "ReplicatedMergeTree"}

\* os.path.getmtime guarded by OSError
get_mtime(t) == IF file[t].present THEN file[t].mtime ELSE None

\* Path(metadata_path).read_bytes() guarded by OSError; content 0 is b''
load_create_statement_from_disk(t) ==
    IF file[t].present THEN file[t].content ELSE None

\* ch_ctl.get_tables(db.name, tables)
get_tables(db) == SelectSeq(TableOrder, LAMBDA t : DbOf[t] = db /\ t \in exists)

\* ch_ctl.list_frozen_parts over table.paths_with_disks
list_frozen_parts(t) == SelectSeq(PartsOf[t], LAMBDA p : p \in frozen)

\* ch_ctl.remove_freezed_data: shadow directories of local disks are removed
remove_freezed_data(fr) == {p \in fr : DiskType[DiskOf[p]] # "local"}

\* deduplicate_part: a link iff the index has the part with the same checksum
deduplicate_part(p) == dedup[p] # None /\ dedup[p] = Checksum[p]

PartMetadata(p, link) == [name |-> p, link |-> link]

\* ------------------------------------------------------------------------
\* Users changing the DB while the backup runs
\* ------------------------------------------------------------------------
Running == pc \notin {"done", "error"}

\* ALTER / touch / truncate: the metadata file is rewritten, mtime changes
AlterTable ==
    /\ Running /\ envOps < MaxEnvOps
    /\ \E t \in exists, c \in 0..MaxContent :
         file' = [file EXCEPT ![t] = [present |-> TRUE, mtime |-> clock + 1, content |-> c]]
    /\ clock' = clock + 1
    /\ envOps' = envOps + 1
    /\ UNCHANGED <<exists, frozen, cfgVars, locVars, outVars, histVars>>
    /\ UNCHANGED <<rvars, cvars, pvars>>

DropTable ==
    /\ Running /\ envOps < MaxEnvOps
    /\ \E t \in exists :
         /\ exists' = exists \ {t}
         /\ file' = [file EXCEPT ![t] = [present |-> FALSE, mtime |-> 0, content |-> 0]]
    /\ clock' = clock + 1
    /\ envOps' = envOps + 1
    /\ UNCHANGED <<frozen, cfgVars, locVars, outVars, histVars>>
    /\ UNCHANGED <<rvars, cvars, pvars>>

CreateTable ==
    /\ Running /\ envOps < MaxEnvOps
    /\ \E t \in Tables \ exists, c \in 1..MaxContent :
         /\ exists' = exists \cup {t}
         /\ file' = [file EXCEPT ![t] = [present |-> TRUE, mtime |-> clock + 1, content |-> c]]
    /\ clock' = clock + 1
    /\ envOps' = envOps + 1
    /\ UNCHANGED <<frozen, cfgVars, locVars, outVars, histVars>>
    /\ UNCHANGED <<rvars, cvars, pvars>>

\* ------------------------------------------------------------------------
\* TableBackup.backup
\* ------------------------------------------------------------------------
\* the restore variables while a backup is modelled
RestoreIdle ==
    /\ db_schema = [t \in RTables |-> NoSchema]
    /\ attached = {}
    /\ detached = {}
    /\ restore_ctx = [tables |-> {}, parts |-> {}, failed |-> {}, disks |-> {}]
    /\ dumped_ctx = [tables |-> {}, parts |-> {}, failed |-> {}, disks |-> {}]
    /\ args = [keep_going |-> FALSE, schema_only |-> FALSE, skip_cloud_storage |-> FALSE,
               clean_zookeeper |-> FALSE, tables |-> <<>>, exclude_tables |-> <<>>]
    /\ deps = {}
    /\ faulty = {}
    /\ ch_version = 2108
    /\ zk_hosts = {}
    /\ db_atomic = TRUE
    /\ meta_uuid = {}
    /\ tables_meta = <<>>
    /\ stmt = [t \in RTables |-> BackupStatement]
    /\ unprocessed = <<>>
    /\ errors = <<>>
    /\ failed_tables = <<>>
    /\ data_todo = <<>>
    /\ attach_parts = <<>>
    /\ run = 0
    /\ queue0 = {}
    /\ prev_run = [clean |-> FALSE, db_schema |-> [t \in RTables |-> NoSchema],
                   attached |-> {}, detached |-> {}]

InitBackup ==
    /\ RestoreIdle
    /\ CliIdle
    /\ PipelineIdle
    /\ exists = Tables
    /\ file = [t \in Tables |-> [present |-> TRUE, mtime |-> 1, content |-> 1]]
    /\ clock = 1
    /\ envOps = 0
    /\ frozen = {}
    /\ \E c \in Configs :
          /\ schema_only = c.schema_only
          /\ validate = c.validate
          /\ cache_path = c.cache_path
          /\ dedup = c.dedup
          /\ external = c.external
    /\ pc = "collect"
    /\ dbi = 1
    /\ mtimes = [t \in Tables |-> None]
    /\ todo = <<>>
    /\ cur = NoTable
    /\ create_statement = None
    /\ fparts = <<>>
    /\ table_meta = <<>>
    /\ uploaded_parts = <<>>
    /\ error = ""
    /\ backup_tables = <<>>
    /\ cloud_disks = {}
    /\ storage_meta = <<>>
    /\ storage_ddl = [t \in Tables |-> None]
    /\ storage_parts = {}
    /\ calls = <<>>
    /\ disk_at_freeze = [t \in Tables |-> None]
    /\ occ_skipped = {}
    /\ not_in_mtimes = {}
    /\ existed_at_failure = {}

\* an exception leaves backup(): nothing more is executed
Raise(e) ==
    /\ pc' = "error"
    /\ error' = e

\* backup(): "for db in databases", and _backup(): external engine check;
\* _collect_local_metadata_mtime: "res = {}" and the listing
\* "context.ch_ctl.get_tables(...)" its loop iterates
backup_collect ==
    /\ pc = "collect"
    /\ IF Dbs[dbi] \in external
       THEN /\ pc' = "upload_metadata"
            /\ UNCHANGED <<todo, mtimes>>
       ELSE /\ todo' = get_tables(Dbs[dbi])
            /\ mtimes' = [t \in Tables |-> None]
            /\ pc' = IF get_tables(Dbs[dbi]) = <<>> THEN "get_tables" ELSE "collect_mtimes"
    /\ UNCHANGED <<envVars, cfgVars, dbi, cur, create_statement, fparts,
                   table_meta, uploaded_parts, error, outVars, histVars>>
    /\ UNCHANGED <<rvars, cvars, pvars>>

\* _collect_local_metadata_mtime: one iteration of the loop, which reads the
\* mtime of a listed table and leaves the table out when it is None; after
\* the last table, "mtimes = ..." in _backup()
backup_collect_mtimes ==
    /\ pc = "collect_mtimes"
    /\ mtimes' = [mtimes EXCEPT ![Head(todo)] = get_mtime(Head(todo))]
    /\ calls' = Append(calls, Call("getmtime", Head(todo), get_mtime(Head(todo))))
    /\ todo' = Tail(todo)
    /\ pc' = IF Tail(todo) = <<>> THEN "get_tables" ELSE "collect_mtimes"
    /\ UNCHANGED <<envVars, cfgVars, dbi, cur, create_statement, fparts,
                   table_meta, uploaded_parts, error, outVars, disk_at_freeze, occ_skipped,
                   not_in_mtimes,
                   existed_at_failure>>
    /\ UNCHANGED <<rvars, cvars, pvars>>

\* _backup(): for table in context.ch_ctl.get_tables(db.name, tables)
backup_get_tables ==
    /\ pc = "get_tables"
    /\ todo' = get_tables(Dbs[dbi])
    /\ pc' = "next_table"
    /\ UNCHANGED <<envVars, cfgVars, dbi, mtimes, cur, create_statement, fparts,
                   table_meta, uploaded_parts, error, outVars, histVars>>
    /\ UNCHANGED <<rvars, cvars, pvars>>

\* variant of in_mtimes: every listed table passes the test
in_mtimes_mut(t) == TRUE

\* _backup(): "table.name not in mtimes", negated
in_mtimes(t) == mtimes[t] # None

\* _backup(): loop head and "if table.name not in mtimes: continue"
backup_next_table ==
    /\ pc = "next_table"
    /\ IF todo = <<>>
       THEN /\ pc' = "upload_metadata"
            /\ UNCHANGED <<todo, cur>>
       ELSE /\ todo' = Tail(todo)
            /\ IF in_mtimes(Head(todo))
               THEN pc' = "load" /\ cur' = Head(todo)
               ELSE pc' = "next_table" /\ cur' = NoTable
    /\ not_in_mtimes' = IF todo # <<>> /\ ~in_mtimes(Head(todo))
                        THEN not_in_mtimes \cup {Head(todo)}
                        ELSE not_in_mtimes
    /\ table_meta' = <<>>
    /\ UNCHANGED <<envVars, cfgVars, dbi, mtimes, create_statement, fparts,
                   uploaded_parts, error, outVars, calls, disk_at_freeze, occ_skipped,
                   existed_at_failure>>
    /\ UNCHANGED <<rvars, cvars, pvars>>

\* _backup_table(): create_statement = _load_create_statement_from_disk(table)
backup_table_load ==
    /\ pc = "load"
    /\ create_statement' = load_create_statement_from_disk(cur)
    /\ calls' = Append(calls, Call("read_bytes", cur, load_create_statement_from_disk(cur)))
    /\ IF load_create_statement_from_disk(cur) \in {None, 0}
       THEN pc' = "next_table" /\ cur' = NoTable
       ELSE pc' = "freeze" /\ cur' = cur
    /\ UNCHANGED <<envVars, cfgVars, dbi, mtimes, todo, fparts, table_meta,
                   uploaded_parts, error, outVars, disk_at_freeze, occ_skipped, not_in_mtimes,
                   existed_at_failure>>
    /\ UNCHANGED <<rvars, cvars, pvars>>

\* ch_ctl.does_table_exist(table.database, table.name)
does_table_exist(t) == t \in exists

\* variant of freeze_failure_reraised: the ClickhouseError of a failed freeze
\* is swallowed whether or not the table still exists
freeze_failure_reraised_mut(t) == FALSE

\* _backup_table(): lines 219-221, the ClickhouseError of freeze_table is
\* re-raised iff the table still exists
freeze_failure_reraised(t) == does_table_exist(t)

\* _backup_table(): freeze only MergeTree tables
backup_table_freeze ==
    /\ pc = "freeze"
    /\ disk_at_freeze' = [disk_at_freeze EXCEPT ![cur] = load_create_statement_from_disk(cur)]
    /\ IF ~schema_only /\ is_merge_tree(Engine[cur])
       THEN \/ /\ cur \in exists
               /\ frozen' = frozen \cup Range(PartsOf[cur])
               /\ calls' = Append(calls, Call("freeze_table", cur, 0))
               /\ pc' = "check_mtime"
               /\ UNCHANGED <<cur, error, existed_at_failure>>
            \/ \* freeze_table raised ClickhouseError: the handler of line 219
               /\ calls' = Append(calls, Call("freeze_table_failed", cur, 0))
               /\ existed_at_failure' = IF cur \in exists
                                        THEN existed_at_failure \cup {cur}
                                        ELSE existed_at_failure \ {cur}
               /\ pc' = "freeze_failed"
               /\ UNCHANGED <<frozen, cur, error>>
       ELSE /\ pc' = "check_mtime"
            /\ UNCHANGED <<frozen, calls, cur, error, existed_at_failure>>
    /\ UNCHANGED <<exists, file, clock, envOps, cfgVars, dbi, mtimes, todo, create_statement,
                   fparts, table_meta, uploaded_parts, outVars, occ_skipped, not_in_mtimes>>
    /\ UNCHANGED <<rvars, cvars, pvars>>

\* _backup_table(): lines 219-224, the handler of the ClickhouseError of
\* freeze_table asks the server whether the table exists: the error is
\* raised again if it does, otherwise the table is skipped
backup_table_freeze_failed ==
    /\ pc = "freeze_failed"
    /\ calls' = Append(calls, Call("does_table_exist", cur,
                                   IF does_table_exist(cur) THEN 1 ELSE 0))
    /\ IF freeze_failure_reraised(cur)
       THEN Raise("freeze_table") /\ cur' = cur
       ELSE pc' = "next_table" /\ cur' = NoTable /\ error' = error
    /\ UNCHANGED <<exists, file, clock, envOps, frozen, cfgVars, dbi, mtimes, todo,
                   create_statement, fparts, table_meta, uploaded_parts, outVars,
                   disk_at_freeze, occ_skipped, not_in_mtimes, existed_at_failure>>
    /\ UNCHANGED <<rvars, cvars, pvars>>

\* variant of mtime_changed: only a removed file is noticed, the comparison
\* with the collected mtime is lost
mtime_changed_mut(t) == get_mtime(t) = None

\* _backup_table(): lines 226-233, has the metadata file changed since the collection
mtime_changed(t) == get_mtime(t) = None \/ mtimes[t] # get_mtime(t)

\* variant of backup_table_check_mtime: the "return None" of the skip branch
\* is lost, the table is uploaded after the warning
backup_table_check_mtime_mut ==
    /\ pc = "check_mtime"
    /\ IF mtime_changed(cur)
       THEN /\ frozen' = remove_freezed_data(frozen)
            /\ calls' = calls \o <<Call("getmtime", cur, get_mtime(cur)),
                                   Call("remove_freezed_data", cur, 0)>>
            /\ occ_skipped' = occ_skipped \cup {cur}
            /\ pc' = "upload_ddl"
            /\ cur' = cur
       ELSE /\ calls' = Append(calls, Call("getmtime", cur, get_mtime(cur)))
            /\ pc' = "upload_ddl"
            /\ UNCHANGED <<frozen, occ_skipped, cur>>
    /\ UNCHANGED <<exists, file, clock, envOps, cfgVars, dbi, mtimes, todo, create_statement,
                   fparts, table_meta, uploaded_parts, error, outVars, disk_at_freeze,
                   not_in_mtimes,
                   existed_at_failure>>
    /\ UNCHANGED <<rvars, cvars, pvars>>

\* _backup_table(): check if table metadata was updated
backup_table_check_mtime ==
    /\ pc = "check_mtime"
    /\ IF mtime_changed(cur)
       THEN /\ frozen' = remove_freezed_data(frozen)
            /\ calls' = calls \o <<Call("getmtime", cur, get_mtime(cur)),
                                   Call("remove_freezed_data", cur, 0)>>
            /\ occ_skipped' = occ_skipped \cup {cur}
            /\ pc' = "next_table"
            /\ cur' = NoTable
       ELSE /\ calls' = Append(calls, Call("getmtime", cur, get_mtime(cur)))
            /\ pc' = "upload_ddl"
            /\ UNCHANGED <<frozen, occ_skipped, cur>>
    /\ UNCHANGED <<exists, file, clock, envOps, cfgVars, dbi, mtimes, todo, create_statement,
                   fparts, table_meta, uploaded_parts, error, outVars, disk_at_freeze,
                   not_in_mtimes,
                   existed_at_failure>>
    /\ UNCHANGED <<rvars, cvars, pvars>>

\* _backup_table(): upload_table_create_statement, then the branch on schema_only
\* and the MergeTree early return of _backup_frozen_table_data
backup_table_upload_ddl ==
    /\ pc = "upload_ddl"
    /\ \/ /\ storage_ddl' = [storage_ddl EXCEPT ![cur] = create_statement]
          /\ calls' = Append(calls, Call("upload_table_create_statement", cur, create_statement))
          /\ IF ~schema_only /\ is_merge_tree(Engine[cur])
             THEN pc' = "parts" /\ fparts' = list_frozen_parts(cur)
             ELSE pc' = "add_table" /\ fparts' = <<>>
          /\ uploaded_parts' = <<>>
          /\ UNCHANGED error
       \/ /\ Raise("upload_table_create_statement")
          /\ UNCHANGED <<storage_ddl, calls, fparts, uploaded_parts>>
    /\ UNCHANGED <<envVars, cfgVars, dbi, mtimes, todo, cur, create_statement, table_meta,
                   backup_tables, cloud_disks, storage_meta, storage_parts,
                   disk_at_freeze, occ_skipped, not_in_mtimes,
                   existed_at_failure>>
    /\ UNCHANGED <<rvars, cvars, pvars>>

\* variant of backup_frozen_part: the "else" is lost, a deduplicated part is
\* uploaded as well
backup_frozen_part_mut ==
    /\ pc = "parts"
    /\ fparts # <<>>
    /\ LET p == Head(fparts) IN
       IF DiskType[DiskOf[p]] = "s3"
       THEN /\ table_meta' = Append(table_meta, PartMetadata(p, FALSE))
            /\ fparts' = Tail(fparts)
            /\ UNCHANGED <<frozen, calls, storage_parts, uploaded_parts, pc, error>>
       ELSE IF deduplicate_part(p)
       THEN /\ frozen' = frozen \ {p}
            /\ calls' = calls \o <<Call("remove_freezed_part", p, 0),
                                   Call("upload_data_part", p, 0)>>
            /\ storage_parts' = storage_parts \cup {p}
            /\ uploaded_parts' = Append(uploaded_parts, PartMetadata(p, FALSE))
            /\ table_meta' = Append(table_meta, PartMetadata(p, TRUE))
            /\ fparts' = Tail(fparts)
            /\ UNCHANGED <<pc, error>>
       ELSE \/ /\ storage_parts' = storage_parts \cup {p}
               /\ calls' = Append(calls, Call("upload_data_part", p, 0))
               /\ uploaded_parts' = Append(uploaded_parts, PartMetadata(p, FALSE))
               /\ table_meta' = Append(table_meta, PartMetadata(p, FALSE))
               /\ fparts' = Tail(fparts)
               /\ UNCHANGED <<frozen, pc, error>>
            \/ /\ Raise("upload_data_part")
               /\ UNCHANGED <<frozen, calls, storage_parts, uploaded_parts, table_meta, fparts>>
    /\ UNCHANGED <<exists, file, clock, envOps, cfgVars, dbi, mtimes, todo, cur, create_statement,
                   backup_tables, cloud_disks, storage_meta, storage_ddl,
                   disk_at_freeze, occ_skipped, not_in_mtimes,
                   existed_at_failure>>
    /\ UNCHANGED <<rvars, cvars, pvars>>

\* _backup_frozen_table_data(): one iteration of "for fpart in freezed_parts"
backup_frozen_part ==
    /\ pc = "parts"
    /\ fparts # <<>>
    /\ LET p == Head(fparts) IN
       IF DiskType[DiskOf[p]] = "s3"
       THEN /\ table_meta' = Append(table_meta, PartMetadata(p, FALSE))
            /\ fparts' = Tail(fparts)
            /\ UNCHANGED <<frozen, calls, storage_parts, uploaded_parts, pc, error>>
       ELSE IF deduplicate_part(p)
       THEN /\ frozen' = frozen \ {p}
            /\ calls' = Append(calls, Call("remove_freezed_part", p, 0))
            /\ table_meta' = Append(table_meta, PartMetadata(p, TRUE))
            /\ fparts' = Tail(fparts)
            /\ UNCHANGED <<storage_parts, uploaded_parts, pc, error>>
       ELSE \/ /\ storage_parts' = storage_parts \cup {p}
               /\ calls' = Append(calls, Call("upload_data_part", p, 0))
               /\ uploaded_parts' = Append(uploaded_parts, PartMetadata(p, FALSE))
               /\ table_meta' = Append(table_meta, PartMetadata(p, FALSE))
               /\ fparts' = Tail(fparts)
               /\ UNCHANGED <<frozen, pc, error>>
            \/ /\ Raise("upload_data_part")
               /\ UNCHANGED <<frozen, calls, storage_parts, uploaded_parts, table_meta, fparts>>
    /\ UNCHANGED <<exists, file, clock, envOps, cfgVars, dbi, mtimes, todo, cur, create_statement,
                   backup_tables, cloud_disks, storage_meta, storage_ddl,
                   disk_at_freeze, occ_skipped, not_in_mtimes,
                   existed_at_failure>>
    /\ UNCHANGED <<rvars, cvars, pvars>>

\* _backup_frozen_table_data(): context.backup_layout.wait()
backup_frozen_wait ==
    /\ pc = "parts"
    /\ fparts = <<>>
    /\ \/ /\ calls' = Append(calls, Call("wait", cur, 0))
          /\ pc' = "validate"
          /\ UNCHANGED error
       \/ /\ Raise("wait")
          /\ UNCHANGED calls
    /\ UNCHANGED <<envVars, cfgVars, dbi, mtimes, todo, cur, create_statement, fparts,
                   table_meta, uploaded_parts, outVars, disk_at_freeze, occ_skipped, not_in_mtimes,
                   existed_at_failure>>
    /\ UNCHANGED <<rvars, cvars, pvars>>

\* the check_data_part calls of _validate_uploaded_parts, in the order of
\* uploaded_parts; the parts in bad are those found broken
check_calls(parts, bad) ==
    [i \in 1..Len(parts) |->
        Call("check_data_part", parts[i].name, IF parts[i].name \in bad THEN 0 ELSE 1)]

\* variant of validate_uploaded_parts: broken parts are logged, nothing is raised
validate_uploaded_parts_mut ==
    /\ pc = "validate"
    /\ IF validate
       THEN \E invalid_parts \in SUBSET {uploaded_parts[i].name : i \in DOMAIN uploaded_parts} :
              /\ calls' = calls \o check_calls(uploaded_parts, invalid_parts)
              /\ pc' = "unfreeze" /\ UNCHANGED error
       ELSE /\ pc' = "unfreeze"
            /\ UNCHANGED <<calls, error>>
    /\ UNCHANGED <<envVars, cfgVars, dbi, mtimes, todo, cur, create_statement, fparts,
                   table_meta, uploaded_parts, outVars, disk_at_freeze, occ_skipped, not_in_mtimes,
                   existed_at_failure>>
    /\ UNCHANGED <<rvars, cvars, pvars>>

\* _validate_uploaded_parts()
validate_uploaded_parts ==
    /\ pc = "validate"
    /\ IF validate
       THEN \E invalid_parts \in SUBSET {uploaded_parts[i].name : i \in DOMAIN uploaded_parts} :
              /\ calls' = calls \o check_calls(uploaded_parts, invalid_parts)
              /\ IF invalid_parts # {}
                 THEN Raise("validate_uploaded_parts")
                 ELSE pc' = "unfreeze" /\ UNCHANGED error
       ELSE /\ pc' = "unfreeze"
            /\ UNCHANGED <<calls, error>>
    /\ UNCHANGED <<envVars, cfgVars, dbi, mtimes, todo, cur, create_statement, fparts,
                   table_meta, uploaded_parts, outVars, disk_at_freeze, occ_skipped, not_in_mtimes,
                   existed_at_failure>>
    /\ UNCHANGED <<rvars, cvars, pvars>>

\* _backup_frozen_table_data(): context.ch_ctl.remove_freezed_data()
backup_frozen_unfreeze ==
    /\ pc = "unfreeze"
    /\ frozen' = remove_freezed_data(frozen)
    /\ calls' = Append(calls, Call("remove_freezed_data", cur, 0))
    /\ pc' = "add_table"
    /\ UNCHANGED <<exists, file, clock, envOps, cfgVars, dbi, mtimes, todo, cur,
                   create_statement, fparts, table_meta, uploaded_parts, error, outVars,
                   disk_at_freeze, occ_skipped, not_in_mtimes,
                   existed_at_failure>>
    /\ UNCHANGED <<rvars, cvars, pvars>>

\* _backup(): context.backup_meta.add_table(table_meta)
backup_add_table ==
    /\ pc = "add_table"
    /\ backup_tables' = Append(backup_tables, [name |-> cur, parts |-> table_meta])
    /\ pc' = "next_table"
    /\ cur' = NoTable
    /\ UNCHANGED <<envVars, cfgVars, dbi, mtimes, todo, create_statement, fparts, table_meta,
                   uploaded_parts, error, cloud_disks, storage_meta, storage_ddl,
                   storage_parts, histVars>>
    /\ UNCHANGED <<rvars, cvars, pvars>>

\* variant of backup_upload_metadata: the upload is indented into the
\* "if not db.is_external_db_engine()" block
backup_upload_metadata_mut ==
    /\ pc = "upload_metadata"
    /\ \/ /\ IF Dbs[dbi] \in external
             THEN UNCHANGED <<storage_meta, calls>>
             ELSE /\ storage_meta' = backup_tables
                  /\ calls' = Append(calls, Call("upload_backup_metadata", Dbs[dbi],
                                                 Len(backup_tables)))
          /\ dbi' = dbi + 1
          /\ pc' = IF dbi + 1 > Len(Dbs) THEN "cloud_storage" ELSE "collect"
          /\ UNCHANGED error
       \/ /\ Raise("upload_backup_metadata")
          /\ UNCHANGED <<storage_meta, calls, dbi>>
    /\ UNCHANGED <<envVars, cfgVars, mtimes, todo, cur, create_statement, fparts, table_meta,
                   uploaded_parts, backup_tables, cloud_disks, storage_ddl, storage_parts,
                   disk_at_freeze, occ_skipped, not_in_mtimes,
                   existed_at_failure>>
    /\ UNCHANGED <<rvars, cvars, pvars>>

\* _backup(): context.backup_layout.upload_backup_metadata(context.backup_meta)
backup_upload_metadata ==
    /\ pc = "upload_metadata"
    /\ \/ /\ storage_meta' = backup_tables
          /\ calls' = Append(calls, Call("upload_backup_metadata", Dbs[dbi], Len(backup_tables)))
          /\ dbi' = dbi + 1
          /\ pc' = IF dbi + 1 > Len(Dbs) THEN "cloud_storage" ELSE "collect"
          /\ UNCHANGED error
       \/ /\ Raise("upload_backup_metadata")
          /\ UNCHANGED <<storage_meta, calls, dbi>>
    /\ UNCHANGED <<envVars, cfgVars, mtimes, todo, cur, create_statement, fparts, table_meta,
                   uploaded_parts, backup_tables, cloud_disks, storage_ddl, storage_parts,
                   disk_at_freeze, occ_skipped, not_in_mtimes,
                   existed_at_failure>>
    /\ UNCHANGED <<rvars, cvars, pvars>>

\* disk.cache_path of every disk
CachePath == cache_path

\* variant of is_cloud_storage_disk: the local cache of the disk is not looked at
is_cloud_storage_disk_mut(d) == DiskType[d] = "s3"
\* _backup_cloud_storage_metadata(): "disk.type == 's3' and not disk.cache_path"
is_cloud_storage_disk(d) == DiskType[d] = "s3" /\ CachePath[d] = ""

\* backup_layout.upload_cloud_storage_metadata: false when nothing is frozen on the disk
upload_cloud_storage_metadata(d) == \E p \in frozen : DiskOf[p] = d

\* _backup_cloud_storage_metadata()
backup_cloud_storage_metadata ==
    /\ pc = "cloud_storage"
    /\ cloud_disks' = {d \in Range(Disks) :
                          /\ is_cloud_storage_disk(d)
                          /\ upload_cloud_storage_metadata(d)}
    /\ calls' = calls \o SelectSeq([i \in 1..Len(Disks) |->
                                       Call("upload_cloud_storage_metadata", Disks[i],
                                            IF upload_cloud_storage_metadata(Disks[i])
                                            THEN 1 ELSE 0)],
                                   LAMBDA c : is_cloud_storage_disk(c.arg))
    /\ pc' = "done"
    /\ UNCHANGED <<envVars, cfgVars, dbi, mtimes, todo, cur, create_statement, fparts,
                   table_meta, uploaded_parts, error, backup_tables, storage_meta,
                   storage_ddl, storage_parts, disk_at_freeze, occ_skipped, not_in_mtimes,
                   existed_at_failure>>
    /\ UNCHANGED <<rvars, cvars, pvars>>

NextBackup ==
    \/ AlterTable
    \/ DropTable
    \/ CreateTable
    \/ backup_collect
    \/ backup_collect_mtimes
    \/ backup_get_tables
    \/ backup_next_table
    \/ backup_table_load
    \/ backup_table_freeze
    \/ backup_table_freeze_failed
    \/ backup_table_check_mtime
    \/ backup_table_upload_ddl
    \/ backup_frozen_part
    \/ backup_frozen_wait
    \/ validate_uploaded_parts
    \/ backup_frozen_unfreeze
    \/ backup_add_table
    \/ backup_upload_metadata
    \/ backup_cloud_storage_metadata

SpecBackup == InitBackup /\ [][NextBackup]_vars

\* ========================================================================
\* Properties of TableBackup.backup
\* ========================================================================
BackedUp == {backup_tables[k].name : k \in DOMAIN backup_tables}
PartNames(meta) == [i \in DOMAIN meta |-> meta[i].name]
\* positions in the call history of the calls named op, whatever the argument
OpIdx(op) == {i \in DOMAIN calls : calls[i].op = op}
\* the per-table work (_backup_table and what it calls) is running
InTableWork == pc \in {"load", "freeze", "freeze_failed", "check_mtime", "upload_ddl", "parts",
                       "validate", "unfreeze"}

\* C1: for every table added to the backup, the uploaded DDL bytes were read
\* after the mtime collection and before the post-freeze mtime re-read, the
\* freeze (if any) lies between the read and the re-read, the two mtimes are
\* equal, and the uploaded bytes are the content the file had when the freeze
\* step ran.
C1_UploadedDdlIsFreezeSnapshot ==
    \A t \in BackedUp :
        /\ storage_ddl[t] = disk_at_freeze[t]
        /\ \E m1 \in CallIdx("getmtime", t), r \in CallIdx("read_bytes", t),
              m2 \in CallIdx("getmtime", t),
              u \in CallIdx("upload_table_create_statement", t) :
              /\ m1 < r /\ r < m2 /\ m2 < u
              /\ calls[m1].res = calls[m2].res
              /\ calls[u].res = calls[r].res
              /\ storage_ddl[t] = calls[r].res
              /\ \A f \in CallIdx("freeze_table", t) : r < f /\ f < m2

\* C1 witness: a frozen table is in the backup although its DDL was altered
\* concurrently (after the re-read), so disk and upload now differ.
C1_Witness ==
    /\ "t1" \in BackedUp
    /\ CallIdx("freeze_table", "t1") # {}
    /\ file["t1"].present
    /\ file["t1"].content # storage_ddl["t1"]

\* C2: every freeze performed by _backup_table is followed by an unfreeze
\* (remove_freezed_data) before the per-table work ends, on every exit path.
C2_FreezeAlwaysUnfrozen ==
    ~InTableWork =>
        \A f \in OpIdx("freeze_table") :
            \E u \in OpIdx("remove_freezed_data") : u > f

\* C3: in _backup_frozen_table_data the PartMetadata appended so far are, in
\* order, one per frozen part listed; a part on a non-s3 disk is either a
\* dedup link (never uploaded, frozen copy removed by remove_freezed_part) or
\* was uploaded by exactly one upload_data_part call (and is no link).
C3_PartProcessed(t, m) ==
    DiskType[DiskOf[m.name]] # "s3" =>
        /\ m.link = deduplicate_part(m.name)
        /\ m.link =>
              /\ CallIdx("upload_data_part", m.name) = {}
              /\ m.name \notin storage_parts
              /\ Cardinality(CallIdx("remove_freezed_part", m.name)) = 1
              /\ m.name \notin frozen
        /\ ~m.link =>
              /\ Cardinality(CallIdx("upload_data_part", m.name)) = 1
              /\ m.name \in storage_parts
              /\ CallIdx("remove_freezed_part", m.name) = {}

C3_OnePartMetadataPerFrozenPart ==
    /\ pc \in {"parts", "validate", "unfreeze"} =>
          /\ PartNames(table_meta) \o fparts = PartsOf[cur]
          /\ \A i \in DOMAIN table_meta : C3_PartProcessed(cur, table_meta[i])
    /\ \A k \in DOMAIN backup_tables :
          (~schema_only /\ is_merge_tree(Engine[backup_tables[k].name])) =>
              /\ PartNames(backup_tables[k].parts) = PartsOf[backup_tables[k].name]
              /\ \A i \in DOMAIN backup_tables[k].parts :
                    C3_PartProcessed(backup_tables[k].name, backup_tables[k].parts[i])

\* C3 witness: t1 is in the backup with p1 deduplicated, p2 uploaded and
\* the s3 part p3.
C3_Witness ==
    \E k \in DOMAIN backup_tables :
        /\ backup_tables[k] = [name |-> "t1",
                               parts |-> <<PartMetadata("p1", TRUE), PartMetadata("p2", FALSE),
                                           PartMetadata("p3", FALSE)>>]
        /\ "p1" \notin storage_parts
        /\ "p2" \in storage_parts

TableOfPart(p) == CHOOSE t \in Tables : p \in Range(PartsOf[t])

\* C4: with validate_part_after_upload, check_data_part is called only for
\* freshly uploaded parts (never for a deduplicated one) and only after the
\* table's wait() returned; once the validation is over every uploaded part
\* of the table has been checked; a failed check ends the backup with an
\* error and the table is not added to the backup.
C4_ValidateAfterWait ==
    /\ ~validate => OpIdx("check_data_part") = {}
    /\ \A c \in OpIdx("check_data_part") :
          /\ CallIdx("upload_data_part", calls[c].arg) # {}
          /\ CallIdx("remove_freezed_part", calls[c].arg) = {}
          /\ ~deduplicate_part(calls[c].arg)
          /\ \E w \in CallIdx("wait", TableOfPart(calls[c].arg)) :
                /\ w < c
                /\ \A p \in Range(PartsOf[TableOfPart(calls[c].arg)]) :
                      \A u \in CallIdx("upload_data_part", p) : u < w
          /\ calls[c].res = 0 =>
                /\ pc = "error" /\ error = "validate_uploaded_parts"
                /\ TableOfPart(calls[c].arg) \notin BackedUp
    /\ validate =>
          \A t \in BackedUp \cup (IF pc \in {"unfreeze", "add_table"} \/
                                     error = "validate_uploaded_parts"
                                  THEN {cur} ELSE {}) :
              \A p \in Range(PartsOf[t]) :
                  CallIdx("upload_data_part", p) # {} =>
                      Cardinality(CallIdx("check_data_part", p)) = 1

\* C4 witness: both uploaded parts of t1 were checked after wait(), the
\* check of p2 failed and aborted the backup.
C4_Witness ==
    /\ error = "validate_uploaded_parts"
    /\ cur = "t1"
    /\ \E c \in CallIdx("check_data_part", "p1") : calls[c].res = 1
    /\ \E c \in CallIdx("check_data_part", "p2") : calls[c].res = 0

\* a table the users left alone during the whole backup
Untouched(t) == file[t].present /\ file[t].mtime = 1

\* C5: a table whose mtime re-read differs from the collected one (or whose
\* file is gone) is skipped without error: no DDL and no part of it is
\* uploaded, its frozen data is discarded, it is absent from the backup
\* metadata, and the remaining tables are still backed up.
C5_OccSkip ==
    \A t \in occ_skipped :
        /\ CallIdx("upload_table_create_statement", t) = {}
        /\ storage_ddl[t] = None
        /\ \A p \in Range(PartsOf[t]) :
              /\ CallIdx("upload_data_part", p) = {}
              /\ p \notin storage_parts
              /\ DiskType[DiskOf[p]] = "local" => p \notin frozen
        /\ \E u \in CallIdx("remove_freezed_data", t) :
              \A f \in CallIdx("freeze_table", t) : f < u
        /\ t \notin BackedUp
        /\ t \notin {storage_meta[k].name : k \in DOMAIN storage_meta}
        /\ pc = "error" => cur # t
        /\ pc = "done" =>
              \A u \in Tables : (Untouched(u) /\ DbOf[u] \notin external) => u \in BackedUp

\* C5 witness: the backup finished, the frozen table t1 was skipped by the
\* mtime check and t2, listed after it, is in the backup.
C5_Witness ==
    /\ pc = "done"
    /\ "t1" \in occ_skipped
    /\ CallIdx("freeze_table", "t1") # {}
    /\ "t2" \in BackedUp
    /\ "t3" \in BackedUp

UploadsOfMetadata == Cardinality(OpIdx("upload_backup_metadata"))

\* C6 (as claimed): the backup metadata is re-uploaded after every table is
\* appended, before the next table is processed.
C6_UploadAfterEveryTable ==
    pc \in {"load", "upload_metadata"} => storage_meta = backup_tables

\* C6 (amended): the backup metadata is re-uploaded once per database, after
\* all tables of the database were processed and before the next database
\* is processed; there is no upload between two tables of a database.
C6_UploadAfterEveryDatabase ==
    /\ pc \in {"collect", "cloud_storage", "done"} => storage_meta = backup_tables
    /\ pc # "error" => UploadsOfMetadata = dbi - 1
    /\ \A i \in OpIdx("upload_backup_metadata") :
          /\ calls[i].arg = Dbs[Cardinality({j \in OpIdx("upload_backup_metadata") : j <= i})]
          /\ \A j \in OpIdx("read_bytes") :
                j < i <=> \E d \in 1..Len(Dbs) :
                             /\ Dbs[d] = DbOf[calls[j].arg]
                             /\ d <= Cardinality({k \in OpIdx("upload_backup_metadata") : k <= i})

\* C6 witness: both tables of db1 were appended and one upload was made.
C6_Witness ==
    /\ pc = "collect"
    /\ dbi = 2
    /\ Len(backup_tables) = 2
    /\ UploadsOfMetadata = 1

\* ========================================================================
\* TableBackup.restore
\* ========================================================================
\* ------------------------------------------------------------------------
\* Schema helpers (ch_backup.clickhouse.schema, ch_backup.util)
\* ------------------------------------------------------------------------
is_distributed(engine) == engine = "Distributed"
is_view(engine) == engine \in {"View", "MaterializedView"}
is_materialized_view(engine) == engine = "MaterializedView"
is_replicated(engine) == engine = "ReplicatedMergeTree"
is_dictionary(t) == REngine[t] = "Dictionary"
\* context.ch_ctl.ch_version_ge
ch_version_ge(v) == ch_version >= v
\* context.ch_ctl.ch_version_ge('21.8')
ChVersionGe218 == ch_version_ge(2108)
\* is_replicated(table.create_statement)
is_replicated_statement(t) == t \in ReplicatedStatements

\* rewrite_table_schema: the UUID clause is injected when add_uuid is set
rewrite_table_schema(s, add_uuid) == [s EXCEPT !.uuid = s.uuid \/ add_uuid]
to_attach_query(s) == [s EXCEPT !.verb = "ATTACH"]
to_create_query(s) == [s EXCEPT !.verb = "CREATE"]
\* compare_schema: string comparison after canonicalization, which makes
\* ATTACH and CREATE equal and removes the UUID clause
normalize_schema(s) == [s EXCEPT !.verb = "CREATE", !.uuid = FALSE]
compare_schema(a, b) == normalize_schema(a) = normalize_schema(b)
\* create_statement of a table returned by ch_ctl.get_tables()
existing_statement(t) ==
    [ver |-> db_schema[t].ver, verb |-> "CREATE", uuid |-> db_schema[t].uuid]
\* the permutations of a finite set, as sequences
Perms(S) == {f \in [1..Cardinality(S) -> S] : Range(f) = S}

\* the backup variables while a restore is modelled
BackupIdle ==
    /\ exists = {}
    /\ file = [t \in Tables |-> [present |-> FALSE, mtime |-> 0, content |-> 0]]
    /\ clock = 0
    /\ envOps = 0
    /\ frozen = {}
    /\ validate = FALSE
    /\ cache_path = NoCache
    /\ dedup = NoDedup
    /\ external = {}
    /\ dbi = 0
    /\ mtimes = [t \in Tables |-> None]
    /\ todo = <<>>
    /\ cur = NoTable
    /\ create_statement = None
    /\ fparts = <<>>
    /\ table_meta = <<>>
    /\ uploaded_parts = <<>>
    /\ backup_tables = <<>>
    /\ cloud_disks = {}
    /\ storage_meta = <<>>
    /\ storage_ddl = [t \in Tables |-> None]
    /\ storage_parts = {}
    /\ disk_at_freeze = [t \in Tables |-> None]
    /\ occ_skipped = {}
    /\ not_in_mtimes = {}
    /\ existed_at_failure = {}

EmptyContext == [tables |-> {}, parts |-> {}, failed |-> {}, disks |-> {}]

InitRestore ==
    /\ BackupIdle
    /\ CliIdle
    /\ PipelineIdle
    /\ pc = "restore"
    /\ error = ""
    /\ calls = <<>>
    /\ args \in RestoreArgs
    /\ schema_only = args.schema_only
    /\ deps \in DepsChoices
    /\ faulty \in FaultyChoices
    /\ ch_version \in ChVersions
    \* the older DB version is combined with the independent tables only
    /\ ch_version < 2108 => deps = {}
    /\ db_schema \in ExistingChoices
    /\ zk_hosts \in ZkHostsChoices
    \* the hosts are read under clean_zookeeper only
    /\ ~args.clean_zookeeper => zk_hosts = {"zk1"}
    /\ db_atomic \in BOOLEAN
    /\ meta_uuid \in {RTables, {}}
    \* a database that is not Atomic, and metadata without uuid, are combined
    \* with the independent tables, no failing table and the newer DB only; the
    \* tables of a database that is not Atomic have no uuid
    /\ (~db_atomic \/ meta_uuid = {}) =>
          deps = {} /\ faulty = {} /\ ch_version = 2108
    /\ ~db_atomic => \A t \in RTables : ~db_schema[t].uuid
    /\ attached = {}
    /\ detached = {}
    /\ restore_ctx = EmptyContext
    /\ dumped_ctx = EmptyContext
    /\ tables_meta = <<>>
    /\ stmt = [t \in RTables |-> BackupStatement]
    /\ unprocessed = <<>>
    /\ errors = <<>>
    /\ failed_tables = <<>>
    /\ data_todo = <<>>
    /\ attach_parts = <<>>
    /\ run = 1
    /\ queue0 = {}
    /\ prev_run = [clean |-> FALSE, db_schema |-> db_schema, attached |-> {}, detached |-> {}]

\* variant of filter_tables_meta: the exclude list is not applied
filter_tables_meta_mut(all_meta) ==
    IF args.tables # <<>>
    THEN SelectSeq(all_meta, LAMBDA t : t \in Range(args.tables))
    ELSE all_meta
\* restore(): lines 121-146, the table metadata left by the required and
\* excluded lists
filter_tables_meta(all_meta) ==
    LET required == IF args.tables # <<>>
                    THEN SelectSeq(all_meta, LAMBDA t : t \in Range(args.tables))
                    ELSE all_meta
    IN IF args.exclude_tables # <<>>
       THEN SelectSeq(required, LAMBDA t : t \notin Range(args.exclude_tables))
       ELSE required

\* restore(): lines 131-135
missed_tables(all_meta) == SelectSeq(args.tables, LAMBDA t : t \notin Range(all_meta))

\* variant of schema_matches: the statements are compared as they are
schema_matches_mut(t) ==
    /\ db_schema[t].exists
    /\ existing_statement(t) = rewrite_table_schema(BackupStatement, FALSE)
\* _preprocess_tables_to_restore(): the existing table has the schema of the backup
schema_matches(t) ==
    /\ db_schema[t].exists
    /\ compare_schema(existing_statement(t), rewrite_table_schema(BackupStatement, FALSE))

\* variant of preprocess_tables_to_restore: existing tables are not filtered out
preprocess_tables_to_restore_mut(tables) == tables
\* _preprocess_tables_to_restore(): result
preprocess_tables_to_restore(tables) == SelectSeq(tables, LAMBDA t : ~schema_matches(t))

\* _preprocess_tables_to_restore(): the drop calls, in order
preprocess_drop_calls(tables) ==
    LET dropped == SelectSeq(tables, LAMBDA t : db_schema[t].exists /\ ~schema_matches(t))
    IN [i \in 1..Len(dropped) |->
           Call(IF is_dictionary(dropped[i]) THEN "drop_dictionary_if_exists"
                ELSE "drop_table_if_exists", dropped[i], 1)]

\* variant of restore_tables_order: the tables are queued in the input order
restore_tables_order_mut(tables) == tables
\* _restore_tables(): chain(merge_tree_tables, other_tables, distributed_tables, view_tables)
restore_tables_order(tables) ==
    SelectSeq(tables, LAMBDA t : is_merge_tree(REngine[t]))
    \o SelectSeq(tables, LAMBDA t : /\ ~is_merge_tree(REngine[t])
                                    /\ ~is_distributed(REngine[t])
                                    /\ ~is_view(REngine[t]))
    \o SelectSeq(tables, LAMBDA t : ~is_merge_tree(REngine[t]) /\ is_distributed(REngine[t]))
    \o SelectSeq(tables, LAMBDA t : /\ ~is_merge_tree(REngine[t])
                                    /\ ~is_distributed(REngine[t])
                                    /\ is_view(REngine[t]))

\* get_table_zookeeper_paths(replicated_tables), the argument of
\* delete_replica_metadata: b is the only replicated merge-tree table of the
\* backup, so the list is empty ("") or holds that table
get_table_zookeeper_paths(tables) == IF tables = <<>> THEN "" ELSE tables[1]

\* _rewrite_table_schema(): add_uuid for table t when add_uuid_if_required is set
add_uuid(t) == t \in meta_uuid /\ db_atomic

\* _restore_tables(): delete_replica_metadata for the replicated merge-tree tables
clean_zookeeper_calls(tables) ==
    IF args.clean_zookeeper /\ Cardinality(zk_hosts) > 0
    THEN LET replicated == SelectSeq(tables, LAMBDA t : /\ is_merge_tree(REngine[t])
                                                        /\ is_replicated(REngine[t]))
         IN <<Call("delete_replica_metadata", get_table_zookeeper_paths(replicated), 1)>>
    ELSE <<>>

PartsOfTables(ts) == {p \in RParts : \E t \in ts : p \in Range(RPartsOf[t])}

\* restore(): lines 120-153 up to the loop of _restore_table_objects
restore_prepare ==
    /\ pc = "restore"
    /\ IF args.tables # <<>> /\ missed_tables(MetaOrder) # <<>>
       THEN /\ Raise("ClickhouseBackupError: required tables")
            /\ UNCHANGED <<calls, tables_meta, stmt, db_schema, attached, detached,
                           unprocessed, errors, queue0>>
       ELSE LET meta == filter_tables_meta(MetaOrder)
                result == preprocess_tables_to_restore(meta)
                dropped == {t \in Range(result) : db_schema[t].exists}
            IN /\ tables_meta' = meta
               /\ stmt' = [t \in RTables |->
                             IF t \in Range(result)
                             THEN rewrite_table_schema(
                                      rewrite_table_schema(BackupStatement, FALSE),
                                      add_uuid(t))
                             ELSE IF t \in Range(meta)
                             THEN rewrite_table_schema(BackupStatement, FALSE)
                             ELSE stmt[t]]
               /\ db_schema' = [t \in RTables |-> IF t \in dropped THEN NoSchema ELSE db_schema[t]]
               /\ attached' = attached \ PartsOfTables(dropped)
               /\ detached' = detached \ PartsOfTables(dropped)
               /\ calls' = calls
                           \o [i \in 1..Len(meta) |-> Call("get_table_create_statement", meta[i], 1)]
                           \o preprocess_drop_calls(meta)
                           \o clean_zookeeper_calls(result)
               /\ unprocessed' = restore_tables_order(result)
               /\ errors' = <<>>
               /\ queue0' = Range(result)
               /\ pc' = IF result = <<>> THEN "objects_end" ELSE "table_objects"
               /\ UNCHANGED error
    /\ UNCHANGED <<restore_ctx, dumped_ctx, args, deps, faulty, ch_version, rcfg, failed_tables,
                   data_todo, attach_parts, run,
                   prev_run, schema_only, bonly, cvars, pvars>>

\* the DB accepts the DDL of t only when every table t depends on exists
deps_ok(t) == \A u \in RTables : <<t, u>> \in deps => db_schema[u].exists

\* variant of needs_restore_replica: every table with a replicated statement
needs_restore_replica_mut(t) == is_replicated_statement(t)
\* _restore_table_object(): RESTORE REPLICA is called after a successful ATTACH
needs_restore_replica(t) ==
    is_replicated_statement(t) /\ ~is_materialized_view(REngine[t]) /\ ChVersionGe218

\* _restore_table_object(): the inner try block succeeded
attach_step_ok(t, o) == o.attach /\ (needs_restore_replica(t) => o.replica)

\* _restore_table_object(): the call returned without raising
table_object_ok(t, o) == attach_step_ok(t, o) \/ o.create

\* what the DB may answer to the requests of one _restore_table_object(t):
\* attach, replica, create tell whether ATTACH, RESTORE REPLICA and CREATE
\* succeeded (FALSE for a request that was not made). A request for a table
\* outside faulty fails only when a dependency of the table is missing
TableObjectOutcomes(t) ==
    {o \in [attach : BOOLEAN, replica : BOOLEAN, create : BOOLEAN] :
        /\ o.attach => deps_ok(t)
        /\ o.replica => o.attach /\ needs_restore_replica(t)
        /\ o.create => /\ ~attach_step_ok(t, o)
                       /\ deps_ok(t)
                       /\ ~o.attach
        /\ t \notin faulty =>
              /\ o.attach <=> deps_ok(t)
              /\ (o.attach /\ needs_restore_replica(t)) => o.replica}

\* variant of dropped_after_failure: no drop when ATTACH had made the table
dropped_after_failure_mut(t, o) == ~table_object_ok(t, o) /\ ~o.attach
\* _restore_table_object(): the outer except, reached when both methods
\* failed, issues drop_dictionary_if_exists / drop_table_if_exists
dropped_after_failure(t, o) == ~table_object_ok(t, o)

\* the table t in the DB after the ATTACH / RESTORE REPLICA / CREATE requests
\* of one _restore_table_object(t): a successful ATTACH or CREATE made it
created_by_requests(t, o) ==
    IF o.attach \/ o.create
    THEN [exists |-> TRUE, ver |-> stmt[t].ver, uuid |-> stmt[t].uuid]
    ELSE db_schema[t]

Int01(b) == IF b THEN 1 ELSE 0

\* _restore_table_object(): the requests made, in order
table_object_calls(t, o) ==
    <<Call("attach_table", t, Int01(o.attach))>>
    \o (IF o.attach /\ needs_restore_replica(t)
        THEN <<Call("restore_replica", t, Int01(o.replica))>> ELSE <<>>)
    \o (IF ~attach_step_ok(t, o)
        THEN <<Call("create_table", t, Int01(o.create))>> ELSE <<>>)
    \o (IF dropped_after_failure(t, o)
        THEN <<Call(IF is_dictionary(t) THEN "drop_dictionary_if_exists"
                    ELSE "drop_table_if_exists", t, 1)>>
        ELSE <<>>)

\* variant of no_retries_anymore: the loop never gives up
no_retries_anymore_never(errs, queue) == FALSE
\* variant of no_retries_anymore: the loop gives up one failure earlier
no_retries_anymore_mut(errs, queue) == Len(errs) >= Len(queue)
\* _restore_table_objects(): "if len(errors) > len(unprocessed)"
no_retries_anymore(errs, queue) == Len(errs) > Len(queue)

\* variant of errors_after_success: a success keeps the recorded errors
errors_after_success_mut(errs) == errs
\* _restore_table_objects(): the error list after a successful attempt
errors_after_success(errs) == <<>>

\* variant of requeue: the failed table is put back at the head of the queue
requeue_mut(queue, t) == <<t>> \o queue
\* _restore_table_objects(): "unprocessed.append(table)" after a failure
requeue(queue, t) == Append(queue, t)

\* _restore_table_objects(): one iteration of "while unprocessed"
restore_table_object ==
    /\ pc = "table_objects"
    /\ unprocessed # <<>>
    /\ LET t == Head(unprocessed) IN
       \E o \in TableObjectOutcomes(t) :
          LET ok == table_object_ok(t, o)
              queue == IF ok THEN Tail(unprocessed) ELSE requeue(Tail(unprocessed), t)
              errs == IF ok THEN errors_after_success(errors) ELSE Append(errors, t)
          IN /\ db_schema' = [db_schema EXCEPT ![t] =
                                 IF dropped_after_failure(t, o) THEN NoSchema
                                 ELSE created_by_requests(t, o)]
             /\ stmt' = [stmt EXCEPT ![t] =
                            IF attach_step_ok(t, o) THEN to_attach_query(@)
                            ELSE to_create_query(to_attach_query(@))]
             /\ unprocessed' = queue
             /\ errors' = errs
             /\ calls' = Append(calls, Call("restore_table_object", t, Int01(ok)))
                         \o table_object_calls(t, o)
             /\ pc' = IF (~ok /\ no_retries_anymore(errs, queue)) \/ queue = <<>>
                      THEN "objects_end" ELSE "table_objects"
    /\ UNCHANGED <<attached, detached, restore_ctx, dumped_ctx, args, deps, faulty, ch_version,
                   rcfg,
                   tables_meta,
                   failed_tables, data_todo,
                   attach_parts, run, queue0, prev_run, error, schema_only, bonly, cvars, pvars>>

\* variant of distinct_failed: the tables of the error list, repeated as recorded
distinct_failed_mut(errs) == {errs}
\* _restore_table_objects(): list(set(table for table, _ in errors))
distinct_failed(errs) == Perms(Range(errs))

\* variant of after_restore_tables: the data is restored whatever schema_only is
after_restore_tables_mut == "cloud_storage_data"
\* restore(): lines 155-157, "if schema_only: return" after _restore_tables
after_restore_tables == IF args.schema_only THEN "restore_done" ELSE "cloud_storage_data"

\* _restore_table_objects(): lines 510-522, and restore(): lines 155-157
restore_table_objects_end ==
    /\ pc = "objects_end"
    /\ IF errors # <<>> /\ ~args.keep_going
       THEN /\ Raise("ClickhouseBackupError: failed to restore tables")
            /\ UNCHANGED failed_tables
       ELSE /\ failed_tables' \in (IF errors # <<>> THEN distinct_failed(errors) ELSE {<<>>})
            /\ pc' = after_restore_tables
            /\ UNCHANGED error
    /\ UNCHANGED <<db_schema, attached, detached, restore_ctx, dumped_ctx, args, deps, faulty,
                   ch_version, rcfg,
                   tables_meta, stmt, unprocessed, errors, data_todo,
                   attach_parts, run, queue0, prev_run,
                   calls, schema_only, bonly, cvars, pvars>>

\* context.backup_meta.has_s3_data()
has_s3_data == \E p \in RParts : RDiskOf[p] \in Range(S3RevisionDisks)

\* variant of restore_revision: the revision of the backup, whatever
\* cloud_storage_latest is
restore_revision_mut(d) == S3Revisions[d]
\* _restore_cloud_storage_data(): "revision if not cloud_storage_latest else 0"
restore_revision(d) == IF ~args.cloud_storage_latest THEN S3Revisions[d] ELSE 0

\* _restore_cloud_storage_data(): the loop over s3_revisions; bad holds the
\* disks whose restart_disk raises. Result: the calls, the disks restarted
\* and whether restart_disk raised
RECURSIVE restore_cloud_storage_disks(_, _, _)
restore_cloud_storage_disks(disks, bad, acc) ==
    IF disks = <<>> THEN acc
    ELSE LET d == Head(disks)
             marker == Call("create_s3_disk_restore_file", d, restore_revision(d))
         IN IF d \in restore_ctx.disks \cup acc.restarted
            THEN restore_cloud_storage_disks(Tail(disks), bad,
                     [acc EXCEPT !.log = Append(@, marker)])
            ELSE IF d \notin bad
            THEN restore_cloud_storage_disks(Tail(disks), bad,
                     [acc EXCEPT !.log = @ \o <<marker, Call("restart_disk", d, 1),
                                                Call("dump_state", d, 1)>>,
                                 !.restarted = @ \cup {d}])
            ELSE [acc EXCEPT !.log = @ \o <<marker, Call("restart_disk", d, 0),
                                            Call("dump_state", d, 1)>>,
                             !.raised = TRUE]

\* variant of tables_to_restore_data: the failed tables are not filtered out
tables_to_restore_data_mut ==
    SelectSeq(tables_meta, LAMBDA t : is_merge_tree(REngine[t]))
\* restore(): lines 169-172
tables_to_restore_data ==
    SelectSeq(tables_meta, LAMBDA t : is_merge_tree(REngine[t]) /\ t \notin Range(failed_tables))

\* restore(): lines 159-176, the cloud storage disks and the entry of the
\* temporary disks block
restore_cloud_storage ==
    /\ pc = "cloud_storage_data"
    /\ IF has_s3_data /\ ~args.skip_cloud_storage
       THEN \E bad \in SUBSET Range(S3RevisionDisks) :
              LET r == restore_cloud_storage_disks(S3RevisionDisks, bad,
                           [log |-> <<>>, restarted |-> {}, raised |-> FALSE])
              IN /\ restore_ctx' = [restore_ctx EXCEPT !.disks = @ \cup r.restarted]
                 /\ dumped_ctx' = IF \E i \in DOMAIN r.log : r.log[i].op = "dump_state"
                                  THEN restore_ctx' ELSE dumped_ctx
                 /\ IF r.raised
                    THEN /\ Raise("restart_disk")
                         /\ calls' = calls \o r.log
                         /\ UNCHANGED data_todo
                    ELSE /\ pc' = "data"
                         /\ calls' = calls \o r.log \o <<Call("temporary_disks_enter", "", 1)>>
                         /\ data_todo' = tables_to_restore_data
                         /\ UNCHANGED error
       ELSE /\ pc' = "data"
            /\ calls' = Append(calls, Call("temporary_disks_enter", "", 1))
            /\ data_todo' = tables_to_restore_data
            /\ UNCHANGED <<restore_ctx, dumped_ctx, error>>
    /\ UNCHANGED <<db_schema, attached, detached, args, deps, faulty, ch_version,
                   rcfg, tables_meta, stmt, attach_parts,
                   unprocessed, errors, failed_tables, run, queue0, prev_run, schema_only,
                   bonly, cvars, pvars>>

\* variant of part_is_fetched: every part is copied or downloaded
part_is_fetched_mut(p) == TRUE
\* _restore_data(): the part is copied or downloaded before it is attached
part_is_fetched(p) == RDiskOf[p] \notin Range(S3RevisionDisks)

\* _restore_data(): the loop over table_meta.get_parts(); bad holds the parts
\* whose copy or download raises. Result: the calls, the parts to attach, the
\* parts placed in detached/, and whether the exception was re-raised
RECURSIVE restore_data_fetch(_, _, _)
restore_data_fetch(parts, bad, acc) ==
    IF parts = <<>> THEN acc
    ELSE LET p == Head(parts)
             op == IF RDiskOf[p] \in CloudStorageDisks THEN "copy_part"
                   ELSE "download_data_part"
         IN IF p \in restore_ctx.parts
            THEN restore_data_fetch(Tail(parts), bad, acc)
            ELSE IF ~part_is_fetched(p)
            THEN restore_data_fetch(Tail(parts), bad,
                     [acc EXCEPT !.attach = Append(@, p)])
            ELSE IF RDiskOf[p] \in CloudStorageDisks /\ args.skip_cloud_storage
            THEN restore_data_fetch(Tail(parts), bad, acc)
            ELSE IF p \notin bad
            THEN restore_data_fetch(Tail(parts), bad,
                     [acc EXCEPT !.log = Append(@, Call(op, p, 1)),
                                 !.attach = Append(@, p),
                                 !.fetched = @ \cup {p}])
            ELSE IF args.keep_going
            THEN restore_data_fetch(Tail(parts), bad,
                     [acc EXCEPT !.log = Append(@, Call(op, p, 0))])
            ELSE [acc EXCEPT !.log = Append(@, Call(op, p, 0)), !.raised = TRUE]

\* _restore_data(): the attach loop; bad holds the parts whose attach raises
restore_data_attach_calls(attach, bad) ==
    [i \in 1..Len(attach) |->
        Call("attach_part", attach[i], IF attach[i] \in bad THEN 0 ELSE 1)]

\* variant of restore_data_calls: the parts are attached as soon as they are
\* submitted, before wait() and the ownership fix
restore_data_calls_mut(t, attach, bad_attach) ==
    restore_data_attach_calls(attach, bad_attach)
    \o <<Call("wait", t, 1), Call("chown_detached_table_parts", t, 1)>>
\* _restore_data(): lines 446-457, the calls made for a table from wait() to
\* the end of the attach loop when neither wait() nor the ownership fix raised
restore_data_calls(t, attach, bad_attach) ==
    <<Call("wait", t, 1), Call("chown_detached_table_parts", t, 1)>>
    \o restore_data_attach_calls(attach, bad_attach)

\* _restore_data(): the calls made for a table when the exception of a part
\* is re-raised; the temporary disks block of restore() is left
restore_data_raise_calls(t, f) ==
    <<Call("add_table", t, 1)>> \o f.log
    \o <<Call("dump_state", t, 1), Call("temporary_disks_exit", "", 1)>>

\* _restore_data(): the calls made from wait() on when wait() (chown_ok
\* FALSE, wait_ok FALSE) or chown_detached_table_parts raised
restore_data_wait_raise_calls(t, wait_ok) ==
    <<Call("wait", t, Int01(wait_ok))>>
    \o (IF wait_ok THEN <<Call("chown_detached_table_parts", t, 0)>> ELSE <<>>)
    \o <<Call("dump_state", t, 1), Call("temporary_disks_exit", "", 1)>>

\* variant of dumped_after_table: nothing is dumped when the table raised
dumped_after_table_mut(ctx, old, raised) == IF raised THEN old ELSE ctx
\* _restore_data(): "finally: context.restore_context.dump_state()", the
\* dumped state after a table, given the context and the state dumped before
dumped_after_table(ctx, old, raised) == ctx

\* variant of restored_parts: add_part is called for every part handed to
\* attach_part, whether the attach succeeded or not
restored_parts_mut(attach, bad_attach) == Range(attach)
\* _restore_data(): lines 451-453, the parts add_part is called for: those
\* whose attach_part returned
restored_parts(attach, bad_attach) == Range(attach) \ bad_attach

\* _restore_data(): an iteration of "for table_meta in tables" up to the
\* wait(): add_table, get_table and the loop over the parts, which submits
\* the downloads
restore_data_table ==
    /\ pc = "data"
    /\ data_todo # <<>>
    /\ LET t == Head(data_todo) IN
       IF ~db_schema[t].exists
       THEN /\ Raise("AssertionError: Table not found")
            /\ restore_ctx' = [restore_ctx EXCEPT !.tables = @ \cup {t}]
            /\ dumped_ctx' = dumped_after_table(restore_ctx', dumped_ctx, TRUE)
            /\ calls' = calls \o restore_data_raise_calls(t, [log |-> <<>>])
            /\ UNCHANGED <<detached, attach_parts>>
       ELSE \E bad \in SUBSET Range(RPartsOf[t]) :
              LET f == restore_data_fetch(RPartsOf[t], bad,
                           [log |-> <<>>, attach |-> <<>>, fetched |-> {}, raised |-> FALSE])
              IN /\ detached' = detached \cup f.fetched
                 /\ restore_ctx' = [restore_ctx EXCEPT !.tables = @ \cup {t}]
                 /\ IF f.raised
                    THEN /\ Raise("restore of part failed")
                         /\ dumped_ctx' = dumped_after_table(restore_ctx', dumped_ctx, TRUE)
                         /\ calls' = calls \o restore_data_raise_calls(t, f)
                         /\ UNCHANGED attach_parts
                    ELSE /\ attach_parts' = f.attach
                         /\ calls' = calls \o <<Call("add_table", t, 1)>> \o f.log
                         /\ pc' = "data_wait"
                         /\ UNCHANGED <<dumped_ctx, error>>
    /\ UNCHANGED <<db_schema, attached, args, deps, faulty, ch_version, rcfg, tables_meta, stmt,
                   unprocessed, errors, data_todo,
                   failed_tables, run, queue0, prev_run, schema_only, bonly, cvars, pvars>>

\* _restore_data(): wait() for the submitted downloads,
\* chown_detached_table_parts and the attach loop, which records every
\* attached part in the restore context; wait() and the ownership fix may
\* raise, and then "finally" dumps the context on the way out
restore_data_wait ==
    /\ pc = "data_wait"
    /\ LET t == Head(data_todo) IN
       \/ \E wait_ok \in BOOLEAN :
             /\ Raise(IF wait_ok THEN "chown_detached_table_parts" ELSE "wait")
             /\ dumped_ctx' = dumped_after_table(restore_ctx, dumped_ctx, TRUE)
             /\ calls' = calls \o restore_data_wait_raise_calls(t, wait_ok)
             /\ UNCHANGED <<attached, detached, restore_ctx, data_todo>>
       \/ \E bad_attach \in SUBSET Range(attach_parts) :
             LET good == Range(attach_parts) \ bad_attach
             IN /\ attached' = attached \cup good
                /\ detached' = detached \ good
                /\ restore_ctx' = [restore_ctx EXCEPT !.parts = @ \cup
                                                          restored_parts(attach_parts,
                                                                         bad_attach),
                                                      !.failed = @ \cup bad_attach]
                /\ calls' = calls \o restore_data_calls(t, attach_parts, bad_attach)
                /\ pc' = "data_dump"
                /\ UNCHANGED <<dumped_ctx, data_todo, error>>
    /\ attach_parts' = <<>>
    /\ UNCHANGED <<db_schema, args, deps, faulty, ch_version, rcfg, tables_meta, stmt,
                   unprocessed, errors,
                   failed_tables, run, queue0, prev_run, schema_only, bonly, cvars, pvars>>

\* _restore_data(): "finally: context.restore_context.dump_state()" at the
\* end of the iteration of a table, then the next table
restore_data_dump ==
    /\ pc = "data_dump"
    /\ dumped_ctx' = dumped_after_table(restore_ctx, dumped_ctx, FALSE)
    /\ calls' = Append(calls, Call("dump_state", Head(data_todo), 1))
    /\ data_todo' = Tail(data_todo)
    /\ pc' = "data"
    /\ UNCHANGED <<db_schema, attached, detached, restore_ctx, args, deps, faulty, ch_version,
                   rcfg, tables_meta, stmt, unprocessed, errors, failed_tables, attach_parts,
                   run, queue0, prev_run, error, schema_only, bonly, cvars, pvars>>

\* restore(): the end of _restore_data() and of the temporary disks block
restore_data_end ==
    /\ pc = "data"
    /\ data_todo = <<>>
    /\ pc' = "restore_done"
    /\ calls' = Append(calls, Call("temporary_disks_exit", "", 1))
    /\ UNCHANGED <<db_schema, attached, detached, restore_ctx, dumped_ctx, args, deps, faulty,
                   ch_version, rcfg,
                   tables_meta, stmt, unprocessed, errors, failed_tables, data_todo,
                   attach_parts, run,
                   queue0, prev_run, error, schema_only, bonly, cvars, pvars>>

\* the run ended without any failure
clean_run ==
    /\ pc = "restore_done"
    /\ failed_tables = <<>>
    /\ restore_ctx.failed = {}
    /\ \A i \in DOMAIN calls :
          calls[i].res # 0 \/ calls[i].op = "create_s3_disk_restore_file"

\* the process is killed while restore() runs: what it holds in memory is
\* lost, the DB and the dumped restore context stay as they are. The kill
\* falls between two steps, or inside the loop over the parts of a table
\* (lines 419-444) after some of them were fetched, or inside the loop over
\* the cloud storage disks (lines 391-404) after some of them were handled.
restore_killed ==
    /\ pc \notin {"restore_done", "error", "killed"}
    /\ pc' = "killed"
    /\ \/ UNCHANGED <<detached, restore_ctx, dumped_ctx, calls>>
       \/ /\ pc = "data"
          /\ data_todo # <<>>
          /\ db_schema[Head(data_todo)].exists
          /\ \E k \in 1..Len(RPartsOf[Head(data_todo)]) :
                \E bad \in SUBSET Range(SubSeq(RPartsOf[Head(data_todo)], 1, k)) :
                   LET t == Head(data_todo)
                       f == restore_data_fetch(SubSeq(RPartsOf[t], 1, k), bad,
                                [log |-> <<>>, attach |-> <<>>, fetched |-> {},
                                 raised |-> FALSE])
                   IN /\ detached' = detached \cup f.fetched
                      /\ restore_ctx' = [restore_ctx EXCEPT !.tables = @ \cup {t}]
                      /\ calls' = calls \o <<Call("add_table", t, 1)>> \o f.log
                      /\ UNCHANGED dumped_ctx
       \/ /\ pc = "cloud_storage_data"
          /\ has_s3_data /\ ~args.skip_cloud_storage
          /\ \E k \in 1..Len(S3RevisionDisks) :
                \E bad \in SUBSET Range(SubSeq(S3RevisionDisks, 1, k)) :
                   LET r == restore_cloud_storage_disks(SubSeq(S3RevisionDisks, 1, k), bad,
                                [log |-> <<>>, restarted |-> {}, raised |-> FALSE])
                   IN /\ restore_ctx' = [restore_ctx EXCEPT !.disks = @ \cup r.restarted]
                      /\ dumped_ctx' = IF \E i \in DOMAIN r.log : r.log[i].op = "dump_state"
                                       THEN restore_ctx' ELSE dumped_ctx
                      /\ calls' = calls \o r.log
                      /\ UNCHANGED detached
    /\ UNCHANGED <<db_schema, attached, args, deps, faulty,
                   ch_version, rcfg, tables_meta, stmt, unprocessed, errors, failed_tables,
                   data_todo, attach_parts, run, queue0, prev_run, error, schema_only,
                   bonly, cvars, pvars>>

\* restore() is invoked again with the same arguments, on the DB and the
\* dumped restore context the previous invocation left
restore_again ==
    /\ pc \in {"restore_done", "error", "killed"}
    /\ run < MaxRuns
    /\ run' = run + 1
    /\ prev_run' = [clean |-> clean_run, db_schema |-> db_schema, attached |-> attached,
                    detached |-> detached]
    /\ pc' = "restore"
    /\ error' = ""
    /\ calls' = <<>>
    /\ restore_ctx' = dumped_ctx
    /\ tables_meta' = <<>>
    /\ stmt' = [t \in RTables |-> BackupStatement]
    /\ unprocessed' = <<>>
    /\ errors' = <<>>
    /\ failed_tables' = <<>>
    /\ data_todo' = <<>>
    /\ attach_parts' = <<>>
    /\ queue0' = {}
    /\ UNCHANGED <<db_schema, attached, detached, dumped_ctx, args, deps, faulty, ch_version, rcfg,
                   schema_only,
                   bonly, cvars, pvars>>

NextRestore ==
    \/ restore_prepare
    \/ restore_table_object
    \/ restore_table_objects_end
    \/ restore_cloud_storage
    \/ restore_data_table
    \/ restore_data_wait
    \/ restore_data_dump
    \/ restore_data_end
    \/ restore_again

SpecRestore == InitRestore /\ [][NextRestore]_vars

\* restore() on a host where the process can be killed at any step
NextRestoreCrash ==
    \/ NextRestore
    \/ restore_killed

SpecRestoreCrash == InitRestore /\ [][NextRestoreCrash]_vars

\* restore() under fair scheduling: the orchestrator is a single sequential
\* process that always takes its next step
SpecRestoreFair == InitRestore /\ [][NextRestore]_vars /\ WF_vars(NextRestore)

\* ========================================================================
\* Properties of TableBackup.restore
\* ========================================================================
\* the attempts of _restore_table_object made so far in this run, in order
Attempts == SelectSeq(calls, LAMBDA c : c.op = "restore_table_object")
\* the queue when attempt i was made: the tables not yet restored before it
QueueAt(i) ==
    {u \in queue0 : ~\E k \in 1..(i - 1) : Attempts[k].arg = u /\ Attempts[k].res = 1}
\* the failures since the last success
RECURSIVE TrailingFailures(_)
TrailingFailures(a) ==
    IF a = <<>> \/ a[Len(a)].res = 1 THEN <<>>
    ELSE Append(TrailingFailures(SubSeq(a, 1, Len(a) - 1)), a[Len(a)].arg)
InObjectsLoop == pc \in {"table_objects", "objects_end"}

C7_QueueInv ==
    InObjectsLoop =>
       /\ pc = "table_objects" => unprocessed # <<>> /\ Len(errors) <= Len(unprocessed)
       /\ Range(unprocessed) = QueueAt(Len(Attempts) + 1)
       /\ errors = TrailingFailures(Attempts)
       /\ \A i, j \in DOMAIN Attempts :
             (/\ i < j
              /\ Attempts[i].arg = Attempts[j].arg
              /\ ~\E k \in (i + 1)..(j - 1) : Attempts[k].arg = Attempts[i].arg)
             => \A u \in QueueAt(i) \ {Attempts[i].arg} :
                   \E k \in (i + 1)..(j - 1) : Attempts[k].arg = u

C7_Iteration ==
    pc = "table_objects" =>
       LET t == Head(unprocessed)
           ok == calls'[Len(calls) + 1].res = 1
       IN /\ calls'[Len(calls) + 1].op = "restore_table_object"
          /\ calls'[Len(calls) + 1].arg = t
          /\ ok => unprocessed' = Tail(unprocessed) /\ errors' = <<>>
          /\ ~ok => /\ unprocessed' = Append(Tail(unprocessed), t)
                    /\ errors' = Append(errors, t)
          /\ pc' \in {"table_objects", "objects_end"}
          /\ pc' = "objects_end" <=>
                \/ unprocessed' = <<>>
                \/ ~ok /\ Len(errors') > Len(unprocessed')

\* C7: _restore_table_objects processes the tables as a FIFO queue: a success
\* removes the table and empties the record of consecutive errors; a failure
\* records the table and pushes it to the tail, so that it is attempted again
\* only after every other table then in the queue has been attempted; the loop
\* stops exactly when the queue is empty or, after a failure, the consecutive
\* failures outnumber the unprocessed queue.
C7_FifoRetryQueue == [](C7_QueueInv) /\ [][C7_Iteration]_vars

\* the loop gave up after a success, a retry and a stall
C7_Witness ==
    /\ pc = "objects_end"
    /\ Len(errors) > Len(unprocessed)
    /\ unprocessed # <<>>
    /\ \E i \in DOMAIN Attempts : Attempts[i].res = 1
    /\ \E i, j \in DOMAIN Attempts : i < j /\ Attempts[i].arg = Attempts[j].arg

\* one more step of the dependency relation
Compose(R) ==
    R \cup {x \in RTables \X RTables :
               \E w \in RTables : <<x[1], w>> \in R /\ <<w, x[2]>> \in deps}
\* the transitive closure of deps (paths of up to four edges)
Closure == Compose(Compose(Compose(deps)))
Acyclic == \A t \in RTables : <<t, t>> \notin Closure

\* _restore_table_objects has just been entered; creations fail only for a
\* missing dependency, the dependencies are acyclic and every dependency of a
\* queued table is queued too or exists already
C8_Start ==
    /\ pc = "table_objects"
    /\ Attempts = <<>>
    /\ faulty = {}
    /\ Acyclic
    /\ \A t \in queue0, u \in RTables :
          <<t, u>> \in deps => u \in queue0 \/ db_schema[u].exists

\* _restore_table_objects returned [] in this run and every table exists
C8_AllCreated ==
    /\ pc \in {"cloud_storage_data", "data", "restore_done"}
    /\ failed_tables = <<>>
    /\ errors = <<>>
    /\ unprocessed = <<>>
    /\ \A t \in queue0 : db_schema[t].exists

\* C8: when creations fail only for a dependency that does not exist yet and
\* the dependencies are acyclic, _restore_table_objects eventually creates
\* every table of the queue and returns an empty failure list without raising,
\* whatever the order of the queue.
C8_AcyclicDepsAllCreated ==
    \A r \in 1..MaxRuns : (C8_Start /\ run = r) ~> (C8_AllCreated /\ run = r)

\* a table that failed twice was created by a later retry, and the loop
\* returned []
C8_Witness ==
    /\ faulty = {}
    /\ Acyclic
    /\ pc = "cloud_storage_data"
    /\ failed_tables = <<>>
    /\ \A t \in queue0 : db_schema[t].exists
    /\ \E i, j, k \in DOMAIN Attempts :
          /\ i < j
          /\ j < k
          /\ Attempts[i].arg = Attempts[j].arg
          /\ Attempts[j].arg = Attempts[k].arg
          /\ Attempts[i].res = 0
          /\ Attempts[j].res = 0
          /\ Attempts[k].res = 1

DataOps == {"create_s3_disk_restore_file", "restart_disk", "temporary_disks_enter",
            "download_data_part", "copy_part", "attach_part"}
TablesFailedError == "ClickhouseBackupError: failed to restore tables"

C9_End ==
    (pc = "objects_end" /\ errors # <<>>) =>
       IF args.keep_going
       THEN /\ error' = ""
            /\ pc' = IF args.schema_only THEN "restore_done" ELSE "cloud_storage_data"
            /\ Range(failed_tables') = Range(errors)
            /\ Len(failed_tables') = Cardinality(Range(errors))
       ELSE /\ pc' = "error"
            /\ error' = TablesFailedError

C9_NoDataAfterRaise ==
    (pc = "error" /\ error = TablesFailedError) =>
       /\ ~\E i \in DOMAIN calls : calls[i].op \in DataOps
       /\ attached = (IF run = 1 THEN {} ELSE prev_run.attached)
       /\ detached = (IF run = 1 THEN {} ELSE prev_run.detached)
       /\ restore_ctx = (IF run = 1 THEN EmptyContext ELSE dumped_ctx)

\* C9: when _restore_table_objects ends with failed tables, keep_going=true
\* makes it return the distinct failed tables and restore goes on; with
\* keep_going=false it raises ClickhouseBackupError, and then no cloud storage
\* disk is restored and no part is downloaded, copied or attached.
C9_FailedTables == [](C9_NoDataAfterRaise) /\ [][C9_End]_vars

\* restore went on to the data of the other tables after a table failed
\* more than once
C9_Witness ==
    /\ args.keep_going
    /\ pc = "restore_done"
    /\ failed_tables # <<>>
    /\ Len(errors) > Len(failed_tables)
    /\ attached # {}

\* the other case of C9: the error was raised
C9_Raised == pc = "error" /\ error = TablesFailedError /\ Len(errors) > 1

SecondRunOps == {"drop_table_if_exists", "drop_dictionary_if_exists", "attach_table",
                 "create_table", "restore_replica", "download_data_part", "copy_part",
                 "attach_part"}

\* C10: restore is idempotent: running restore again after a restore that
\* completed without failures, on the DB and restore context it left, leaves
\* the same DB state and drops or creates no table and downloads, copies or
\* attaches no part; it fails only if wait() or the ownership fix, which are
\* called for every table, raise.
C10_Idempotent ==
    (run > 1 /\ prev_run.clean) =>
       /\ pc = "error" => error \in {"wait", "chown_detached_table_parts"}
       /\ db_schema = prev_run.db_schema
       /\ attached = prev_run.attached
       /\ detached = prev_run.detached
       /\ ~\E i \in DOMAIN calls : calls[i].op \in SecondRunOps

\* the second run of a restore that re-created tables and attached parts
\* has finished
C10_Witness ==
    /\ run > 1
    /\ prev_run.clean
    /\ pc = "restore_done"
    /\ ~args.schema_only
    /\ {"q1", "q2", "q3"} \subseteq attached
    /\ \A t \in RTables : db_schema[t].exists

\* the DB the current invocation of restore() started on
StartSchema(t) == prev_run.db_schema[t]
MatchedAtStart(t) ==
    /\ StartSchema(t).exists
    /\ compare_schema([ver |-> StartSchema(t).ver, verb |-> "CREATE",
                       uuid |-> StartSchema(t).uuid],
                      rewrite_table_schema(BackupStatement, FALSE))
MismatchedAtStart(t) == StartSchema(t).exists /\ ~MatchedAtStart(t)
DropOps == {"drop_table_if_exists", "drop_dictionary_if_exists"}
CreateOps == {"attach_table", "create_table"}
FetchOps == {"download_data_part", "copy_part"}
\* the part is one that _restore_data copies or downloads under the arguments
FetchedPart(p) ==
    /\ RDiskOf[p] \notin Range(S3RevisionDisks)
    /\ ~(RDiskOf[p] \in CloudStorageDisks /\ args.skip_cloud_storage)

\* C11: a table of the backup that exists with a matching schema is neither
\* dropped nor re-created (no ATTACH or CREATE is issued for it) and its parts
\* are still downloaded and attached; a table that exists with a mismatching
\* schema is dropped and then re-created.
C11_SkipExisting ==
    \A t \in Range(tables_meta) :
       /\ MatchedAtStart(t) =>
             /\ ~\E i \in DOMAIN calls :
                   calls[i].arg = t /\ calls[i].op \in DropOps \cup CreateOps
             /\ db_schema[t] = StartSchema(t)
             /\ (pc = "restore_done" /\ ~args.schema_only /\ run = 1) =>
                   \A p \in Range(RPartsOf[t]) :
                      FetchedPart(p) =>
                         \E i \in DOMAIN calls :
                            /\ calls[i].arg = p
                            /\ calls[i].op \in FetchOps
                            /\ calls[i].res = 1 =>
                                  \E j \in DOMAIN calls :
                                     /\ j > i
                                     /\ calls[j].op = "attach_part"
                                     /\ calls[j].arg = p
       /\ MismatchedAtStart(t) =>
             /\ \E i \in DOMAIN calls : calls[i].arg = t /\ calls[i].op \in DropOps
             /\ pc \notin {"restore", "table_objects"} =>
                   \E i, j \in DOMAIN calls :
                      /\ i < j
                      /\ calls[i].arg = t
                      /\ calls[i].op \in DropOps
                      /\ calls[j].arg = t
                      /\ calls[j].op = "attach_table"
             /\ db_schema[t].exists => db_schema[t].ver = BackupStatement.ver

\* a matching table was left alone and got its parts, a mismatching one was
\* dropped and created again
C11_Witness ==
    /\ run = 1
    /\ pc = "restore_done"
    /\ MatchedAtStart("a")
    /\ "a" \in Range(tables_meta)
    /\ {"q1", "q2"} \subseteq attached
    /\ MismatchedAtStart("d")
    /\ "d" \in Range(tables_meta)
    /\ db_schema["d"].exists

\* C12: a failure of attach_part is recorded in the restore context, and with
\* keep_going=false the first attach failure raises and stops the restore:
\* no part is attached after it.
C12_AttachFailureRaises ==
    /\ \A i \in DOMAIN calls :
          (calls[i].op = "attach_part" /\ calls[i].res = 0) =>
             calls[i].arg \in restore_ctx.failed
    /\ ~args.keep_going =>
          \A i \in DOMAIN calls :
             (calls[i].op = "attach_part" /\ calls[i].res = 0) =>
                /\ pc = "error"
                /\ ~\E j \in DOMAIN calls : j > i /\ calls[j].op = "attach_part"

\* what the code does on a failed attach_part: the failure is recorded and the
\* loop goes on to the next part and the next table, whatever keep_going is
C12_AttachFailureRecorded ==
    \A i \in DOMAIN calls :
       (calls[i].op = "attach_part" /\ calls[i].res = 0) =>
          /\ calls[i].arg \in restore_ctx.failed
          /\ calls[i].arg \notin restore_ctx.parts
          /\ calls[i].arg \notin attached

\* restore returned normally with keep_going=false although an attach failed
\* and a later part was attached
C12_Returned ==
    /\ ~args.keep_going
    /\ pc = "restore_done"
    /\ \E i, j \in DOMAIN calls :
          /\ i < j
          /\ calls[i].op = "attach_part"
          /\ calls[i].res = 0
          /\ calls[j].op = "attach_part"
          /\ calls[j].res = 1

\* the table of the backup a part belongs to
TableOfRPart(p) == CHOOSE t \in RTables : p \in Range(RPartsOf[t])

\* C13: for each table of _restore_data the order is downloads, wait(), fix
\* ownership, attach: every attach_part of a part comes after the
\* chown_detached_table_parts of its table, which comes after the wait() that
\* follows every copy or download submitted for the table.
C13_FetchWaitChownAttach ==
    \A j \in DOMAIN calls :
       calls[j].op = "attach_part" =>
          LET t == TableOfRPart(calls[j].arg) IN
          \E w \in {i \in 1..(j - 1) : calls[i] = Call("wait", t, 1)} :
             /\ \E c \in (w + 1)..(j - 1) :
                   calls[c] = Call("chown_detached_table_parts", t, 1)
             /\ \A k \in DOMAIN calls :
                   (calls[k].op \in FetchOps /\ calls[k].arg \in Range(RPartsOf[t])) => k < w
             /\ \E k \in 1..(w - 1) : calls[k] = Call("add_table", t, 1)

\* both parts of table a were fetched and then attached
C13_Witness ==
    /\ \E k \in DOMAIN calls : calls[k] = Call("download_data_part", "q1", 1)
    /\ \E k \in DOMAIN calls : calls[k] = Call("copy_part", "q2", 1)
    /\ \E j \in DOMAIN calls : calls[j] = Call("attach_part", "q1", 1)
    /\ \E j \in DOMAIN calls : calls[j] = Call("attach_part", "q2", 1)

\* each add_table is followed by a dump_state of the same table before the
\* next table starts, unless the iteration of that table is still under way
\* or the process was killed in it
C14_DumpFollows ==
    \A i \in DOMAIN calls :
        calls[i].op = "add_table" =>
           \/ /\ pc \in {"data_wait", "data_dump", "killed"}
              /\ data_todo # <<>>
              /\ calls[i].arg = Head(data_todo)
              /\ \A k \in (i + 1)..Len(calls) : calls[k].op \notin {"add_table", "dump_state"}
           \/ \E j \in DOMAIN calls :
                 /\ j > i
                 /\ calls[j] = Call("dump_state", calls[i].arg, 1)
                 /\ ~\E k \in (i + 1)..(j - 1) : calls[k].op = "add_table"

\* between two tables, at the end and after an exception the dumped state is
\* the restore context as it is then
C14_DumpedAtBoundaries ==
    pc \in {"data", "restore_done", "error"} => dumped_ctx = restore_ctx

\* the parts recorded as restored that are not in the dumped state
Undumped == restore_ctx.parts \ dumped_ctx.parts

\* C14 (as claimed): the restore context is dumped after every table
\* processed by _restore_data, also when the table ends with an exception,
\* so that every part recorded as restored before a crash or an error is in
\* the dumped state.
C14_RecordedPartsPersisted ==
    /\ C14_DumpFollows
    /\ C14_DumpedAtBoundaries
    /\ pc \in {"killed", "error"} => Undumped = {}

\* C14: the restore context is dumped after every table processed by
\* _restore_data, also when the table ends with an exception, so every
\* table and part recorded before an error is in the dumped state. After a
\* kill every recorded part of the tables processed before is in the dumped
\* state; the parts of the table under way that were attached after the
\* last dump are recorded in memory only.
C14_DumpAfterEveryTable ==
    /\ C14_DumpFollows
    /\ C14_DumpedAtBoundaries
    /\ Undumped # {} =>
          /\ pc \in {"data_dump", "killed"}
          /\ data_todo # <<>>
          /\ Undumped \subseteq Range(RPartsOf[Head(data_todo)])
          /\ calls[Len(calls)].op = "attach_part"

\* C14 witness: the process was killed after the attach loop of table a and
\* before the dump: q1 is recorded in memory only, q3 of table b, processed
\* before, is in the dumped state.
C14_Witness ==
    /\ pc = "killed"
    /\ data_todo # <<>> /\ Head(data_todo) = "a"
    /\ "q1" \in Undumped
    /\ "q3" \in dumped_ctx.parts
    /\ {"b"} \subseteq dumped_ctx.tables

\* the data restore of table a raised after table b had been restored, and
\* both are in the dumped state
C14_AfterError ==
    /\ pc = "error"
    /\ error = "restore of part failed"
    /\ "q3" \in dumped_ctx.parts
    /\ {"a", "b"} \subseteq dumped_ctx.tables
    /\ calls[Len(calls) - 1] = Call("dump_state", "a", 1)

RequiredTablesError == "ClickhouseBackupError: required tables"
\* a required table is absent from the metadata of the non-external databases
RequiredMissing ==
    args.tables # <<>> /\ \E t \in Range(args.tables) : t \notin Range(MetaOrder)
\* the tables a call of this run is about
TablesOfCalls ==
    {calls[i].arg : i \in {k \in DOMAIN calls : calls[k].arg \in RTables \cup ExternalDbTables}}

\* C15: when a list of required tables is given and one of them is absent
\* from the backup metadata of the non-external databases, restore raises
\* ClickhouseBackupError before any DDL is fetched, any table dropped or
\* created and any data restored; otherwise the tables restored are exactly
\* the tables of the backup that are in the required list and not in the
\* exclude list.
C15_RequiredTables ==
    (args.tables # <<>> /\ pc # "restore") =>
       IF RequiredMissing
       THEN /\ pc = "error"
            /\ error = RequiredTablesError
            /\ calls = <<>>
            /\ tables_meta = <<>>
            /\ db_schema = prev_run.db_schema
            /\ attached = (IF run = 1 THEN {} ELSE prev_run.attached)
            /\ restore_ctx = dumped_ctx
       ELSE /\ error # RequiredTablesError
            /\ Range(tables_meta) =
                  (Range(MetaOrder) \cap Range(args.tables)) \ Range(args.exclude_tables)
            /\ TablesOfCalls \subseteq Range(tables_meta)
            /\ \A t \in Range(tables_meta) :
                  \E i \in DOMAIN calls : calls[i] = Call("get_table_create_statement", t, 1)
            /\ \A t \in RTables \ Range(tables_meta) : db_schema[t] = StartSchema(t)

\* restore of the required tables a, d, v without v has finished: a and d
\* were restored, b and v were not
C15_Witness ==
    /\ args.tables = <<"a", "d", "v">>
    /\ pc = "restore_done"
    /\ tables_meta = <<"d", "a">>
    /\ db_schema["a"].exists
    /\ db_schema["d"].exists
    /\ ~db_schema["b"].exists
    /\ ~db_schema["v"].exists
    /\ "q1" \in attached

\* the other case of C15: a required table is only in a database with an
\* external engine and restore failed fast
C15_FailedFast ==
    /\ args.tables = <<"a", "x">>
    /\ pc = "error"
    /\ error = RequiredTablesError
    /\ calls = <<>>

\* calls[i] is a request of _restore_table_object for table t
IsCall(i, op, t) == i \in DOMAIN calls /\ calls[i].op = op /\ calls[i].arg = t

\* C16: _restore_table_object always attempts ATTACH first and issues CREATE
\* only when the ATTACH step raised; RESTORE REPLICA is called only right
\* after a successful ATTACH, and only for a table with a replicated statement
\* that is not a materialized view on a DB version >= 21.8, never after the
\* CREATE fallback; a failure of RESTORE REPLICA leads to the CREATE fallback.
C16_AttachThenCreate ==
    \A i \in DOMAIN calls :
       LET t == calls[i].arg
           replica == /\ is_replicated_statement(t)
                      /\ REngine[t] # "MaterializedView"
                      /\ ch_version >= 2108
       IN /\ calls[i].op = "restore_table_object" => IsCall(i + 1, "attach_table", t)
          /\ calls[i].op = "attach_table" =>
                /\ IsCall(i - 1, "restore_table_object", t)
                /\ calls[i].res = 0 => IsCall(i + 1, "create_table", t)
                /\ (calls[i].res = 1 /\ replica) => IsCall(i + 1, "restore_replica", t)
                /\ (calls[i].res = 1 /\ ~replica) =>
                      /\ ~IsCall(i + 1, "restore_replica", t)
                      /\ ~IsCall(i + 1, "create_table", t)
                      /\ calls[i - 1].res = 1
          /\ calls[i].op = "restore_replica" =>
                /\ replica
                /\ IsCall(i - 1, "attach_table", t)
                /\ calls[i - 1].res = 1
                /\ calls[i].res = 0 => IsCall(i + 1, "create_table", t)
                /\ calls[i].res = 1 =>
                      ~IsCall(i + 1, "create_table", t) /\ calls[i - 2].res = 1
          /\ calls[i].op = "create_table" =>
                \/ IsCall(i - 1, "attach_table", t) /\ calls[i - 1].res = 0
                \/ IsCall(i - 1, "restore_replica", t) /\ calls[i - 1].res = 0

\* RESTORE REPLICA failed after a successful ATTACH and CREATE was tried; the
\* materialized view with a replicated statement was attached without it
C16_Witness ==
    /\ ch_version >= 2108
    /\ \E i \in DOMAIN calls :
          /\ calls[i] = Call("attach_table", "b", 1)
          /\ IsCall(i + 1, "restore_replica", "b")
          /\ calls[i + 1].res = 0
          /\ IsCall(i + 2, "create_table", "b")
    /\ \E i \in DOMAIN calls : calls[i] = Call("attach_table", "v", 1)

\* on an older DB the replicated table is attached without RESTORE REPLICA
C16_OldVersion ==
    /\ ch_version < 2108
    /\ \E i \in DOMAIN calls : calls[i] = Call("attach_table", "b", 1)
    /\ pc = "restore_done"

\* the group of a table in _restore_tables: 1 merge-tree, 2 other,
\* 3 distributed, 4 view
EngineGroup(t) ==
    CASE REngine[t] \in {"MergeTree", "ReplicatedMergeTree"} -> 1
      [] REngine[t] = "Distributed" -> 3
      [] REngine[t] \in {"View", "MaterializedView"} -> 4
      [] OTHER -> 2
\* position of a table in the metadata handed to _restore_tables
MetaPos(t) == CHOOSE i \in DOMAIN tables_meta : tables_meta[i] = t
\* the attempts of the first pass over the queue
FirstPass == 1..(IF Len(Attempts) < Cardinality(queue0) THEN Len(Attempts)
                 ELSE Cardinality(queue0))

\* C17: in the first pass of the table re-creation the tables are attempted
\* in the order merge-tree, other, distributed, view, with the input order
\* kept inside each group; every queued table is attempted once in that pass.
C17_FirstPassOrder ==
    /\ \A i, j \in FirstPass :
          i < j =>
             /\ Attempts[i].arg # Attempts[j].arg
             /\ EngineGroup(Attempts[i].arg) <= EngineGroup(Attempts[j].arg)
             /\ EngineGroup(Attempts[i].arg) = EngineGroup(Attempts[j].arg) =>
                   MetaPos(Attempts[i].arg) < MetaPos(Attempts[j].arg)
    /\ \A i \in FirstPass : Attempts[i].arg \in queue0
    /\ pc \notin {"restore", "table_objects", "error"} =>
          Len(Attempts) >= Cardinality(queue0)

\* the first pass went over b, a, d, s, v although the metadata lists them as
\* v, s, b, d, a
C17_Witness ==
    /\ tables_meta = <<"v", "s", "b", "d", "a">>
    /\ Len(Attempts) >= 5
    /\ [i \in 1..5 |-> Attempts[i].arg] = <<"b", "a", "d", "s", "v">>

\* the calls appended by the step being taken
NewCalls == SubSeq(calls', Len(calls) + 1, Len(calls'))
NewIdx(op, d) == {i \in DOMAIN NewCalls : NewCalls[i].op = op /\ NewCalls[i].arg = d}

C18_Step ==
    (pc = "cloud_storage_data" /\ has_s3_data /\ ~args.skip_cloud_storage) =>
       /\ dumped_ctx' = restore_ctx'
       /\ restore_ctx.disks \subseteq restore_ctx'.disks
       /\ pc' = "error" <=> \E i \in DOMAIN NewCalls : NewCalls[i].op = "restart_disk"
                                                        /\ NewCalls[i].res = 0
       /\ \A d \in Range(S3RevisionDisks) :
             /\ \A i \in NewIdx("create_s3_disk_restore_file", d) :
                   NewCalls[i].res = (IF args.cloud_storage_latest THEN 0
                                      ELSE S3Revisions[d])
             /\ Cardinality(NewIdx("create_s3_disk_restore_file", d)) <= 1
             /\ pc' # "error" => NewIdx("create_s3_disk_restore_file", d) # {}
             /\ d \in restore_ctx.disks => NewIdx("restart_disk", d) = {}
             /\ \A i \in NewIdx("restart_disk", d) :
                   /\ d \notin restore_ctx.disks
                   /\ i > 1
                   /\ NewCalls[i - 1].op = "create_s3_disk_restore_file"
                   /\ NewCalls[i - 1].arg = d
                   /\ i < Len(NewCalls)
                   /\ NewCalls[i + 1] = Call("dump_state", d, 1)
                   /\ NewCalls[i].res = 1 <=> d \in restore_ctx'.disks
             /\ (d \notin restore_ctx.disks /\ NewIdx("create_s3_disk_restore_file", d) # {})
                   => NewIdx("restart_disk", d) # {}

\* C18: _restore_cloud_storage_data writes, for each disk of s3_revisions,
\* the restore marker with the revision of the backup (0 when
\* cloud_storage_latest) and then restarts the disk and records it; a disk
\* already recorded as restarted is not restarted again; the restore context
\* is dumped after every restart attempt, also when the restart raises.
C18_CloudStorageDisks == [][C18_Step]_vars

\* a second run skipped the disk the first run had restarted and restarted
\* the disk whose restart had raised
C18_Witness ==
    /\ run = 2
    /\ restore_ctx.disks = {"s3rev", "s3b"}
    /\ \E i \in DOMAIN calls :
          /\ calls[i].op = "create_s3_disk_restore_file"
          /\ calls[i].arg = "s3rev"
          /\ IsCall(i + 1, "create_s3_disk_restore_file", "s3b")
          /\ i + 3 \in DOMAIN calls
          /\ calls[i + 2] = Call("restart_disk", "s3b", 1)
          /\ calls[i + 3] = Call("dump_state", "s3b", 1)

\* the fetch loop of a table routes every part; the parts to attach are
\* kept in attach_parts
C19_FetchStep ==
    (pc = "data" /\ data_todo # <<>> /\ db_schema[Head(data_todo)].exists) =>
       \A p \in Range(RPartsOf[Head(data_todo)]) :
          LET copied == NewIdx("copy_part", p) # {}
              downloaded == NewIdx("download_data_part", p) # {}
              attach == p \in Range(attach_parts')
              fetch_ok == \E i \in DOMAIN NewCalls :
                             /\ NewCalls[i].arg = p
                             /\ NewCalls[i].op \in FetchOps
                             /\ NewCalls[i].res = 1
          IN /\ NewIdx("attach_part", p) = {}
             /\ IF p \in restore_ctx.parts
                THEN ~copied /\ ~downloaded /\ ~attach
                ELSE IF RDiskOf[p] \in DOMAIN S3Revisions
                THEN /\ ~copied
                     /\ ~downloaded
                     /\ pc' # "error" => attach
                ELSE IF RDiskOf[p] \in CloudStorageDisks
                THEN /\ ~downloaded
                     /\ args.skip_cloud_storage => ~copied /\ ~attach
                     /\ (~args.skip_cloud_storage /\ pc' # "error") => copied
                     /\ attach <=> (fetch_ok /\ pc' # "error")
                ELSE /\ ~copied
                     /\ pc' # "error" => downloaded
                     /\ fetch_ok => p \in detached'
                     /\ attach <=> (fetch_ok /\ pc' # "error")

\* after wait() and the ownership fix, attach_part is called for the parts of
\* attach_parts and for no other; nothing is copied or downloaded any more
C19_AttachStep ==
    pc = "data_wait" =>
       \A p \in Range(RPartsOf[Head(data_todo)]) :
          /\ NewIdx("copy_part", p) = {} /\ NewIdx("download_data_part", p) = {}
          /\ NewIdx("attach_part", p) # {} <=> (p \in Range(attach_parts) /\ pc' # "error")

C19_Step == C19_FetchStep /\ C19_AttachStep

\* C19: _restore_data routes each part that is not in the restore context by
\* its disk: a part on a disk of s3_revisions is neither copied nor downloaded
\* and is attached; a part on a disk of cloud_storage.disks is copied, or with
\* skip_cloud_storage neither copied nor attached; any other part is
\* downloaded into the detached directory of its table; a part already in the
\* restore context is neither copied, downloaded nor attached.
C19_PartRouting == [][C19_Step]_vars

\* one part of each kind went its way
C19_Witness ==
    /\ run = 1
    /\ pc = "restore_done"
    /\ ~args.skip_cloud_storage
    /\ \E i \in DOMAIN calls : calls[i] = Call("download_data_part", "q1", 1)
    /\ \E i \in DOMAIN calls : calls[i] = Call("copy_part", "q2", 1)
    /\ \E i \in DOMAIN calls : calls[i] = Call("attach_part", "q3", 1)
    /\ ~\E i \in DOMAIN calls : calls[i].arg = "q3" /\ calls[i].op \in FetchOps

\* with skip_cloud_storage the part on the cloud storage disk was left out
C19_Skipped ==
    /\ args.skip_cloud_storage
    /\ pc = "restore_done"
    /\ "q1" \in attached
    /\ "q2" \notin attached
    /\ ~\E i \in DOMAIN calls : calls[i].arg = "q2"

\* a second run left the restored part alone and restored the missing one
C19_Resumed ==
    /\ run = 2
    /\ pc = "restore_done"
    /\ "q1" \in prev_run.attached
    /\ "q2" \notin prev_run.attached
    /\ \E i \in DOMAIN calls : calls[i] = Call("attach_part", "q2", 1)
    /\ ~\E i \in DOMAIN calls : calls[i].arg = "q1"

\* ========================================================================
\* Properties of TableBackup._backup_cloud_storage_metadata
\* ========================================================================
CloudUploads == {i \in DOMAIN calls : calls[i].op = "upload_cloud_storage_metadata"}
DatabaseUploads == {i \in DOMAIN calls : calls[i].op = "upload_backup_metadata"}

\* C20: after _backup_cloud_storage_metadata a disk is recorded in the
\* cloud_storage section of the backup if and only if it has type s3, has no
\* local cache path and upload_cloud_storage_metadata returned true for it,
\* which it does when data is frozen on the disk; the step runs only after
\* the tables of all databases have been processed.
C20_CloudStorageSection ==
    /\ pc # "done" => cloud_disks = {} /\ CloudUploads = {}
    /\ pc \in {"cloud_storage", "done"} =>
          /\ Cardinality(DatabaseUploads) = Len(Dbs)
          /\ todo = <<>>
          /\ cur = NoTable
    /\ pc = "done" =>
          /\ cloud_disks =
                {d \in Range(Disks) :
                    /\ DiskType[d] = "s3"
                    /\ cache_path[d] = ""
                    /\ \E i \in CloudUploads : calls[i].arg = d /\ calls[i].res = 1}
          /\ \A i \in CloudUploads :
                /\ calls[i].res = 1 <=> \E p \in frozen : DiskOf[p] = calls[i].arg
                /\ \A j \in DOMAIN calls : j \notin CloudUploads => j < i

\* the s3 disk held frozen data and was recorded
C20_Witness ==
    /\ pc = "done"
    /\ cloud_disks = {"s3"}
    /\ \E i \in CloudUploads : calls[i] = Call("upload_cloud_storage_metadata", "s3", 1)

\* the s3 disk held frozen data but has a local cache: it was not recorded
C20_Cached ==
    /\ pc = "done"
    /\ cache_path["s3"] # ""
    /\ "p3" \in frozen
    /\ cloud_disks = {}

\* nothing was frozen on the s3 disk: it was not recorded
C20_NoData ==
    /\ pc = "done"
    /\ \E i \in CloudUploads : calls[i] = Call("upload_cloud_storage_metadata", "s3", 0)
    /\ cloud_disks = {}

\* ========================================================================
\* Properties of TableBackup._backup_table: failed freeze, tables missed by
\* the mtime snapshot
\* ========================================================================
\* positions of the freeze_table calls that raised ClickhouseError
FreezeFailures == OpIdx("freeze_table_failed")

\* nothing of table t has reached the storage or the backup metadata
NothingBackedUp(t) ==
    /\ CallIdx("upload_table_create_statement", t) = {}
    /\ storage_ddl[t] = None
    /\ \A p \in Range(PartsOf[t]) :
          CallIdx("upload_data_part", p) = {} /\ p \notin storage_parts
    /\ t \notin BackedUp
    /\ t \notin {storage_meta[k].name : k \in DOMAIN storage_meta}

\* C21: when freeze_table raises, does_table_exist is asked next, and user
\* DDL can run in between: the table counts as gone or existing as the
\* server answers that question. If the table is gone it is skipped: the
\* backup goes on with the next table (the per-table work on it is over and
\* no freeze error is raised), no DDL and no part of the table is ever
\* uploaded, it is absent from the backup, and the untouched tables are
\* still backed up. If the table still exists the error leaves backup() and
\* nothing more is executed. Until the question is asked the backup is
\* still on that table and nothing else is called.
C21_FreezeFailure ==
    \A i \in FreezeFailures :
        LET t == calls[i].arg IN
        /\ i = Len(calls) => pc = "freeze_failed" /\ cur = t /\ error = ""
        /\ pc = "freeze_failed" => i = Len(calls)
        /\ i < Len(calls) =>
              /\ calls[i + 1].op = "does_table_exist" /\ calls[i + 1].arg = t
              /\ calls[i + 1].res = 1 =>
                    /\ pc = "error" /\ error = "freeze_table" /\ cur = t
                    /\ Len(calls) = i + 1
                    /\ t \in exists
              /\ calls[i + 1].res = 0 =>
                    /\ error # "freeze_table"
                    /\ cur # t
                    /\ NothingBackedUp(t)
                    /\ pc = "done" =>
                          \A u \in Tables :
                              (Untouched(u) /\ DbOf[u] \notin external) => u \in BackedUp

\* C21 witness: the freeze of t1 failed after the table was dropped, and the
\* backup finished with t2 and t3 in it.
C21_Witness ==
    /\ pc = "done"
    /\ \E i \in FreezeFailures : calls[i].arg = "t1" /\ calls[i + 1].res = 0
    /\ "t1" \notin existed_at_failure
    /\ "t1" \notin BackedUp
    /\ "t2" \in BackedUp /\ "t3" \in BackedUp

\* the freeze of t1 failed while the table exists: the backup failed
C21_Propagated ==
    /\ pc = "error" /\ error = "freeze_table"
    /\ \E i \in FreezeFailures : calls[i].arg = "t1" /\ calls[i + 1].res = 1
    /\ "t1" \in existed_at_failure
    /\ "t1" \in exists

\* the freeze of t1 failed while the table existed and a user dropped the
\* table before does_table_exist was asked: t1 is skipped without an error
\* and the backup finished with t2 and t3 in it
C21_DroppedBeforeCheck ==
    /\ pc = "done"
    /\ \E i \in FreezeFailures : calls[i].arg = "t1" /\ calls[i + 1].res = 0
    /\ "t1" \in existed_at_failure
    /\ "t1" \notin BackedUp
    /\ "t2" \in BackedUp /\ "t3" \in BackedUp

\* the freeze of t1 failed on a dropped table and a user created the table
\* again before does_table_exist was asked: the backup failed
C21_RecreatedBeforeCheck ==
    /\ pc = "error" /\ error = "freeze_table"
    /\ \E i \in FreezeFailures : calls[i].arg = "t1" /\ calls[i + 1].res = 1
    /\ "t1" \notin existed_at_failure
    /\ "t1" \in exists

\* call i freezes table t or uploads its DDL or one of its parts
TouchCall(i, t) ==
    \/ /\ calls[i].arg = t
       /\ calls[i].op \in {"freeze_table", "freeze_table_failed",
                           "upload_table_create_statement"}
    \/ calls[i].op = "upload_data_part" /\ calls[i].arg \in Range(PartsOf[t])

\* table t was frozen, or something of it was uploaded or recorded in the
\* backup
Touched(t) ==
    \/ t \in BackedUp
    \/ storage_ddl[t] # None
    \/ \E p \in Range(PartsOf[t]) : p \in frozen \/ p \in storage_parts
    \/ \E k \in DOMAIN storage_meta : storage_meta[k].name = t
    \/ \E i \in DOMAIN calls : TouchCall(i, t)

\* call i reads the mtime of table t for the collection at the start of its
\* database's backup: the DDL of t has not been loaded yet
CollectedAt(i, t) ==
    /\ calls[i].op = "getmtime" /\ calls[i].arg = t
    /\ \A j \in 1..(i - 1) : ~(calls[j].op = "read_bytes" /\ calls[j].arg = t)

\* call j loads the DDL of table t from disk
LoadedAt(j, t) == calls[j].op = "read_bytes" /\ calls[j].arg = t

\* the collection read the mtime of t, then a non-empty DDL of t was loaded,
\* and nothing of t was frozen or uploaded before
Captured(t) ==
    \E j \in DOMAIN calls :
        /\ LoadedAt(j, t) /\ calls[j].res \notin {None, 0}
        /\ \E i \in 1..(j - 1) : CollectedAt(i, t) /\ calls[i].res # None
        /\ \A i \in 1..(j - 1) : ~TouchCall(i, t)

\* in every state: a table is frozen or backed up only after the collection
\* read its mtime and a non-empty DDL was loaded; a listed table that is not
\* in the snapshot is not loaded; a table whose mtime could not be read or
\* whose DDL is missing (None) or empty (0) is never frozen, has nothing
\* uploaded and is absent from the backup
C30_Snapshot ==
    \A t \in Tables :
        /\ Touched(t) => Captured(t)
        /\ t \in not_in_mtimes =>
              ~Touched(t) /\ \A j \in DOMAIN calls : ~LoadedAt(j, t)
        /\ (\E i \in DOMAIN calls : CollectedAt(i, t) /\ calls[i].res = None) =>
              ~Touched(t)
        /\ (\E j \in DOMAIN calls : LoadedAt(j, t) /\ calls[j].res \in {None, 0}) =>
              ~Touched(t)

\* the loop of _backup reaching a listed table that is not in the snapshot
\* goes on with the next table: no call is made for it
C30_Step ==
    (pc = "next_table" /\ todo # <<>> /\ mtimes[Head(todo)] = None /\ todo' = Tail(todo)) =>
        /\ pc' = "next_table" /\ cur' = NoTable
        /\ calls' = calls
        /\ Head(todo) \in not_in_mtimes'

\* C30: a table is frozen or backed up only if the collection at the start
\* of its database's backup read its mtime, and after a non-empty DDL was
\* loaded from disk. A table of the second listing that is not in the
\* snapshot is not even loaded; a table whose mtime could not be read, or
\* whose DDL is missing or empty, is never frozen, has nothing uploaded and
\* is absent from the backup.
C30_OnlySnapshotTables == [](C30_Snapshot) /\ [][C30_Step]_vars

\* C30 witness: t2 was dropped before the collection of db1 and created again
\* before the second listing: it is listed, is not in the snapshot, and the
\* finished backup has t1 but not t2.
C30_Witness ==
    /\ pc = "done"
    /\ "t2" \in not_in_mtimes
    /\ \A i \in DOMAIN calls : calls[i].arg # "t2"
    /\ "t2" \in exists /\ file["t2"].content # 0
    /\ "t2" \notin BackedUp /\ "t1" \in BackedUp

\* the mtime of t1 could not be read: the table was dropped between the
\* listing of the collection and the read; t2 is backed up without it
C30_MtimeUnreadable ==
    /\ pc = "done"
    /\ \E i \in DOMAIN calls : CollectedAt(i, "t1") /\ calls[i].res = None
    /\ "t1" \notin BackedUp /\ "t2" \in BackedUp

\* the DDL of t1 on disk is empty when it is loaded: t1 is in the snapshot
\* and still exists, and is not in the finished backup
C30_EmptyDdl ==
    /\ pc = "done"
    /\ \E i \in DOMAIN calls : CollectedAt(i, "t1") /\ calls[i].res # None
    /\ \E j \in DOMAIN calls : LoadedAt(j, "t1") /\ calls[j].res = 0
    /\ "t1" \in exists /\ "t1" \notin BackedUp /\ "t2" \in BackedUp

\* the DDL of t1 is missing when it is loaded: t1 was dropped after the
\* second listing
C30_MissingDdl ==
    /\ pc = "done"
    /\ "t1" \notin not_in_mtimes
    /\ \E j \in DOMAIN calls : LoadedAt(j, "t1") /\ calls[j].res = None
    /\ "t1" \notin BackedUp /\ "t2" \in BackedUp

\* ========================================================================
\* Command line: list, show, backup, restore, delete, purge, version (cli.py)
\* ========================================================================
\* bound on the number of commands of one session
MaxCommands == 2

BackupNames == {"b1", "b2"}
\* BackupState values a stored backup can have before any command
BackupStates == {"created", "creating", "failed"}
\* the BACKUP argument of a command
NameArgs == {"LAST", "b1", "b2", "zz"}
\* state argument of ClickhouseBackup.list when none is given
NoState == ""

\* contents of the storage: distinct names, distinct start times
StorageChoices ==
    {S \in SUBSET [name : BackupNames, state : BackupStates, start_time : 1..2] :
        \A x, y \in S : (x.name = y.name \/ x.start_time = y.start_time) => x = y}

\* backup_layout.get_backups: the stored backups, most recent first
get_backups ==
    CHOOSE q \in Perms(storage_backups) :
        \A i, j \in DOMAIN q : i < j => q[i].start_time > q[j].start_time

\* ClickhouseBackup.list(state): all backups, or those in the given state
list(state) == SelectSeq(get_backups, LAMBDA b : state = NoState \/ b.state = state)

\* ctx.fail(msg) / return value of _validate_name
Fail(msg) == [ok |-> FALSE, name |-> "", msg |-> msg]
Valid(name) == [ok |-> TRUE, name |-> name, msg |-> ""]

\* _validate_name
validate_name(name) ==
    LET backups == list(NoState) IN
    IF name = "LAST"
    THEN IF backups = <<>> THEN Fail("There are no backups.") ELSE Valid(backups[1].name)
    ELSE IF name \notin {backups[i].name : i \in DOMAIN backups}
         THEN Fail("No backups with name were found.")
         ELSE Valid(name)

\* outcome of a command whose name validation gave v and that printed the
\* lines out on standard output
Result(command, name, v, out) ==
    [command |-> command, name |-> name, resolved |-> v.name,
     status |-> IF v.ok THEN "ok" ELSE "fail", msg |-> v.msg,
     out |-> IF v.ok THEN out ELSE <<>>]

\* names of a sequence of backups
names_of(backups) == [i \in DOMAIN backups |-> backups[i].name]

\* start time of a backup made now: later than every stored backup
new_start_time ==
    IF storage_backups = {} THEN 1
    ELSE 1 + (CHOOSE n \in {b.start_time : b \in storage_backups} :
                 \A b \in storage_backups : b.start_time <= n)

\* calls of a command on ch_backup: list() of _validate_name, then op(name)
command_calls(op, v) ==
    <<Call("list", NoState, Len(list(NoState)))>>
    \o (IF v.ok THEN <<Call(op, v.name, 1)>> ELSE <<>>)

\* ClickhouseBackup.delete(name): the backup is removed, or is kept as
\* partially deleted while later backups still use its parts
delete_outcomes(name) ==
    { {b \in storage_backups : b.name # name},
      {IF b.name = name THEN [b EXCEPT !.state = "partially_deleted"] ELSE b :
          b \in storage_backups} }

\* show_command
show_command ==
    /\ pc = "cli" /\ commands < MaxCommands
    /\ \E name \in NameArgs :
          /\ cli_result' = Result("show", name, validate_name(name),
                                  <<validate_name(name).name>>)
          /\ calls' = calls \o command_calls("get", validate_name(name))
    /\ commands' = commands + 1
    /\ UNCHANGED <<storage_backups, pc, error, schema_only, bonly, rvars, pvars>>

\* restore_command
restore_command ==
    /\ pc = "cli" /\ commands < MaxCommands
    /\ \E name \in NameArgs :
          /\ cli_result' = Result("restore", name, validate_name(name), <<>>)
          /\ calls' = calls \o command_calls("restore", validate_name(name))
    /\ commands' = commands + 1
    /\ UNCHANGED <<storage_backups, pc, error, schema_only, bonly, rvars, pvars>>

\* delete_command
delete_command ==
    /\ pc = "cli" /\ commands < MaxCommands
    /\ \E name \in NameArgs :
          /\ calls' = calls \o command_calls("delete", validate_name(name))
          /\ IF validate_name(name).ok
             THEN storage_backups' \in delete_outcomes(validate_name(name).name)
             ELSE UNCHANGED storage_backups
          /\ cli_result' =
                Result("delete", name, validate_name(name),
                       IF validate_name(name).name \in {b.name : b \in storage_backups'}
                       THEN <<>> ELSE <<validate_name(name).name>>)
    /\ commands' = commands + 1
    /\ UNCHANGED <<pc, error, schema_only, bonly, rvars, pvars>>

\* list_command: the columns of the verbose report
fields == <<"name", "state", "start_time", "end_time", "size", "real_size", "ch_version">>

\* list_command with --verbose: the lines of tabulate(report, headers=fields),
\* every line as its cells: the header, the rule under it, then one row per
\* backup with str(getattr(backup, x, None)) for every field and the state
\* replaced by backup.state.value. The attributes of a stored backup that
\* no command reads but this report are fixed by the backup.
tabulate(backups) ==
    LET attrs(b) == [name |-> b.name, state |-> b.state, start_time |-> b.start_time,
                     end_time |-> b.start_time, size |-> 10, real_size |-> 10,
                     ch_version |-> "21.8"]
        numbers == {"start_time", "end_time", "size", "real_size"}
        str(b, x) == IF x \in numbers THEN ToString(attrs(b)[x]) ELSE attrs(b)[x]
        row(b) == [i \in DOMAIN fields |-> str(b, fields[i])]
        rule == [i \in DOMAIN fields |-> "-"]
    IN  <<fields, rule>> \o [i \in DOMAIN backups |-> row(backups[i])]

\* list_command: the backups in state CREATED, or all backups with --all;
\* their names, one per line, or the report with --verbose; with no name
\* print('\n'.join([])) writes one empty line
list_command ==
    /\ pc = "cli" /\ commands < MaxCommands
    /\ \E all \in BOOLEAN, verbose \in BOOLEAN :
          LET state == IF all THEN NoState ELSE "created" IN
          /\ cli_result' = Result("list", "", Valid(""),
                                  IF verbose THEN tabulate(list(state))
                                  ELSE IF list(state) = <<>> THEN <<"">>
                                  ELSE names_of(list(state)))
          /\ calls' = Append(calls, Call("list", state, Len(list(state))))
    /\ commands' = commands + 1
    /\ UNCHANGED <<storage_backups, pc, error, schema_only, bonly, rvars, pvars>>

\* ClickhouseBackup.backup(name, force): the storage after the call and the
\* name returned; a backup that is not forced may be skipped when a backup
\* in state CREATED exists (backup.min_interval), and the name of the last
\* such backup is returned
backup_outcomes(name, force) ==
    {[storage |-> storage_backups \cup
                    {[name |-> name, state |-> "created", start_time |-> new_start_time]},
      name |-> name]}
    \cup (IF ~force /\ list("created") # <<>>
          THEN {[storage |-> storage_backups, name |-> list("created")[1].name]}
          ELSE {})

\* backup_command
backup_command ==
    /\ pc = "cli" /\ commands < MaxCommands
    /\ \E name \in BackupNames \ {b.name : b \in storage_backups},
          databases \in BOOLEAN, tables \in BOOLEAN, force \in BOOLEAN :
          IF databases /\ tables
          THEN /\ cli_result' =
                    Result("backup", name,
                           Fail("Options --databases and --tables are mutually exclusive."),
                           <<>>)
               /\ UNCHANGED <<calls, storage_backups>>
          ELSE \E o \in backup_outcomes(name, force) :
                  /\ cli_result' = Result("backup", name, Valid(o.name), <<o.name>>)
                  /\ calls' = Append(calls, Call("backup", name, 1))
                  /\ storage_backups' = o.storage
    /\ commands' = commands + 1
    /\ UNCHANGED <<pc, error, schema_only, bonly, rvars, pvars>>

\* purge_command: ClickhouseBackup.purge removes the outdated backups and
\* returns their names, printed one per line; with no name
\* print('\n'.join([])) writes one empty line
purge_command ==
    /\ pc = "cli" /\ commands < MaxCommands
    /\ \E outdated \in SUBSET storage_backups :
          \E q \in Perms(outdated) :
              /\ cli_result' = Result("purge", "", Valid(""),
                                      IF q = <<>> THEN <<"">> ELSE names_of(q))
              /\ calls' = Append(calls, Call("purge", "", Len(q)))
              /\ storage_backups' = storage_backups \ outdated
    /\ commands' = commands + 1
    /\ UNCHANGED <<pc, error, schema_only, bonly, rvars, pvars>>

\* version_command: prints the version, ch_backup is not used
version_command ==
    /\ pc = "cli" /\ commands < MaxCommands
    /\ cli_result' = Result("version", "", Valid(""), <<"version">>)
    /\ commands' = commands + 1
    /\ UNCHANGED <<calls, storage_backups, pc, error, schema_only, bonly, rvars, pvars>>

InitCli ==
    /\ BackupIdle
    /\ RestoreIdle
    /\ PipelineIdle
    /\ pc = "cli"
    /\ calls = <<>>
    /\ error = ""
    /\ schema_only = FALSE
    /\ storage_backups \in StorageChoices
    /\ cli_result = NoResult
    /\ commands = 0

NextCli ==
    \/ list_command
    \/ show_command
    \/ backup_command
    \/ restore_command
    \/ delete_command
    \/ purge_command
    \/ version_command

SpecCli == InitCli /\ [][NextCli]_vars

\* ------------------------------------------------------------------------
\* Properties of the command line
\* ------------------------------------------------------------------------
\* the operation of ch_backup a command invokes
OperationOf == [show |-> "get", restore |-> "restore", delete |-> "delete"]
\* the step is a command that takes a BACKUP argument
TakesBackupName == commands' = commands + 1 /\ cli_result'.command \in DOMAIN OperationOf
\* the backups in state CREATED
CreatedBackups == {b \in storage_backups : b.state = "created"}
\* name of the backup of S started last
MostRecent(S) == (CHOOSE b \in S : \A c \in S : c.start_time <= b.start_time).name
\* the command just run invoked its operation on backup n / invoked nothing
Invoked(n) == calls' = calls \o <<Call("list", NoState, Cardinality(storage_backups)),
                                  Call(OperationOf[cli_result'.command], n, 1)>>
NothingInvoked == calls' = calls \o <<Call("list", NoState, Cardinality(storage_backups))>>

\* a name that is not LAST and not in the backup list fails, and the
\* operation is not invoked
UnknownNameFails ==
    (/\ cli_result'.name # "LAST"
     /\ cli_result'.name \notin {b.name : b \in storage_backups})
    => (cli_result'.status = "fail" /\ NothingInvoked)

C22_Step ==
    TakesBackupName =>
        /\ (cli_result'.name = "LAST" /\ CreatedBackups # {}) =>
              /\ cli_result'.status = "ok"
              /\ cli_result'.resolved = MostRecent(CreatedBackups)
              /\ Invoked(MostRecent(CreatedBackups))
        /\ (cli_result'.name = "LAST" /\ CreatedBackups = {}) =>
              /\ cli_result'.status = "fail"
              /\ cli_result'.msg = "There are no backups."
              /\ NothingInvoked
        /\ UnknownNameFails

\* C22 (as claimed): show, restore and delete resolve LAST to the most recent
\* backup in state CREATED and fail with "There are no backups." when no
\* backup is in that state; any other name that is not in the backup list
\* fails and the operation is not invoked.
C22_LastIsMostRecentCreated == [][C22_Step]_vars

C22_ListedStep ==
    TakesBackupName =>
        /\ (cli_result'.name = "LAST" /\ storage_backups # {}) =>
              /\ cli_result'.status = "ok"
              /\ cli_result'.resolved = MostRecent(storage_backups)
              /\ Invoked(MostRecent(storage_backups))
        /\ (cli_result'.name = "LAST" /\ storage_backups = {}) =>
              /\ cli_result'.status = "fail"
              /\ cli_result'.msg = "There are no backups."
              /\ NothingInvoked
        /\ UnknownNameFails

\* what the commands do: LAST is the most recent backup of the list whatever
\* its state, and fails only when the list is empty
C22_LastIsMostRecentListed == [][C22_ListedStep]_vars

\* restore LAST ran on a failed backup although an older CREATED one exists
C22_LastNotCreated ==
    /\ cli_result.command = "restore" /\ cli_result.name = "LAST"
    /\ cli_result.status = "ok"
    /\ \E b \in storage_backups : b.name = cli_result.resolved /\ b.state = "failed"
    /\ \E b \in storage_backups : b.name # cli_result.resolved /\ b.state = "created"
    /\ calls[Len(calls)] = Call("restore", cli_result.resolved, 1)

\* a command with an unknown name failed
C22_UnknownName ==
    /\ cli_result.name = "zz" /\ cli_result.status = "fail"
    /\ storage_backups # {}

\* ========================================================================
\* Pipelines (storage/async_pipeline/pipelines.py)
\* ========================================================================
\* bound on the number of chunks the first stage of a pipeline emits
MaxChunks == 2
\* capacity of the queue between two adjacent stages
QueueCapacity == 1

UploadKinds == {"data", "file", "tarball"}
DownloadKinds == {"download_data", "download_file", "download_files"}
PipelineKinds == UploadKinds \cup DownloadKinds \cup {"delete_multiple"}

\* local files a pipeline reads or writes
FilesOf == [data |-> {}, file |-> {"f1"}, tarball |-> {"f1", "f2"},
            download_data |-> {}, download_file |-> {"f1"},
            download_files |-> {"f1", "f2"}, delete_multiple |-> {}]
\* the reading stage of each file upload
ReaderOf == [file |-> "read_file", tarball |-> "read_files_tarball"]
Readers == {"read_file", "read_files_tarball"}
\* stages without an input queue that emit chunks
Sources == Readers \cup {"iterable", "download_storage"}
\* stages that turn a chunk into a chunk
Transforms == {"encrypt", "decrypt"}
\* last stages of the download pipelines
Receivers == {"collect_data", "write_file", "write_files"}
\* items the first stage emits: build_iterable_stage([data]) has one item
items_of(stage) == IF stage = "iterable" THEN 1 ELSE MaxChunks

\* variant of upload_pipeline_stages: the delete-files stage is chained
\* before the uploading stage
upload_pipeline_stages_mut(reader, encrypt, delete_after) ==
    <<reader>>
    \o (IF encrypt THEN <<"encrypt">> ELSE <<>>)
    \o (IF delete_after THEN <<"delete_files">> ELSE <<>>)
    \o <<"upload">>

\* upload_file_pipeline / upload_files_tarball_pipeline: the builder calls in
\* program order (lines 37-43 and 58-64)
upload_pipeline_stages(reader, encrypt, delete_after) ==
    <<reader>>
    \o (IF encrypt THEN <<"encrypt">> ELSE <<>>)
    \o <<"upload">>
    \o (IF delete_after THEN <<"delete_files">> ELSE <<>>)

\* download_data_pipeline / download_file_pipeline / download_files_pipeline:
\* the builder calls in program order
download_pipeline_stages(decrypt, receiver) ==
    <<"download_storage">>
    \o (IF decrypt THEN <<"decrypt">> ELSE <<>>)
    \o <<receiver>>

\* builder.pipeline(): every stage starts with an empty input queue
build_pipeline(chain) ==
    /\ stages' = chain
    /\ queues' = [i \in DOMAIN chain |-> 0]
    /\ stage_done' = [i \in DOMAIN chain |-> FALSE]
    /\ pc' = "pipeline_run"
    /\ UNCHANGED <<pipeline, emitted, uploaded, local_files, remote, storage_objects,
                   received, returned>>
    /\ UNCHANGED <<calls, error, schema_only, bonly, rvars, cvars>>

\* upload_data_pipeline up to run(): no delete-files stage
upload_data_pipeline ==
    /\ pc = "pipeline_start" /\ pipeline.kind = "data"
    /\ build_pipeline(<<"iterable">>
                      \o (IF pipeline.encrypt THEN <<"encrypt">> ELSE <<>>)
                      \o <<"upload">>)

\* upload_file_pipeline up to run()
upload_file_pipeline ==
    /\ pc = "pipeline_start" /\ pipeline.kind = "file"
    /\ build_pipeline(upload_pipeline_stages("read_file", pipeline.encrypt,
                                             pipeline.delete_after))

\* upload_files_tarball_pipeline up to run()
upload_files_tarball_pipeline ==
    /\ pc = "pipeline_start" /\ pipeline.kind = "tarball"
    /\ build_pipeline(upload_pipeline_stages("read_files_tarball", pipeline.encrypt,
                                             pipeline.delete_after))

\* download_data_pipeline up to run_and_return_first()
download_data_pipeline ==
    /\ pc = "pipeline_start" /\ pipeline.kind = "download_data"
    /\ build_pipeline(download_pipeline_stages(pipeline.encrypt, "collect_data"))

\* download_file_pipeline up to run()
download_file_pipeline ==
    /\ pc = "pipeline_start" /\ pipeline.kind = "download_file"
    /\ build_pipeline(download_pipeline_stages(pipeline.encrypt, "write_file"))

\* download_files_pipeline up to run()
download_files_pipeline ==
    /\ pc = "pipeline_start" /\ pipeline.kind = "download_files"
    /\ build_pipeline(download_pipeline_stages(pipeline.encrypt, "write_files"))

\* delete_multiple_storage_pipeline up to run()
delete_multiple_storage_pipeline ==
    /\ pc = "pipeline_start" /\ pipeline.kind = "delete_multiple"
    /\ build_pipeline(<<"delete_multiple_storage">>)

\* the stage before stage i has finished (a generator has none)
upstream_done(i) == IF i = 1 THEN TRUE ELSE stage_done[i - 1]
\* the queue of the stage after stage i, if any, has room
can_emit(i) == IF i < Len(stages) THEN queues[i + 1] < QueueCapacity ELSE TRUE
\* the queues after stage i took an item (if it has an input) and emitted one
moved(i, takes, emits) ==
    [j \in DOMAIN queues |->
        IF j = i /\ takes THEN queues[j] - 1
        ELSE IF j = i + 1 /\ emits THEN queues[j] + 1
        ELSE queues[j]]

\* run(): a worker of one stage handles one item. A first stage emits a
\* chunk (the download stage reads it from the object in the storage),
\* encrypt and decrypt turn a chunk into a chunk, the uploading stage sends a
\* chunk as a part of the multipart upload, delete-files ignores its input,
\* the last stage of a download keeps the chunk (write-file and write-files
\* in local files), the delete stage removes one of its objects.
stage_step ==
    /\ pc = "pipeline_run"
    /\ \E i \in DOMAIN stages :
          /\ ~stage_done[i]
          /\ CASE stages[i] \in Sources ->
                    /\ emitted < items_of(stages[i])
                    /\ stages[i] = "download_storage" =>
                          pipeline.remote_paths \subseteq storage_objects
                    /\ can_emit(i)
                    /\ emitted' = emitted + 1
                    /\ queues' = moved(i, FALSE, i < Len(stages))
                    /\ UNCHANGED <<uploaded, remote, storage_objects, received, local_files>>
               [] stages[i] \in Transforms ->
                    /\ queues[i] > 0
                    /\ can_emit(i)
                    /\ queues' = moved(i, TRUE, i < Len(stages))
                    /\ UNCHANGED <<emitted, uploaded, remote, storage_objects, received,
                                   local_files>>
               [] stages[i] = "upload" ->
                    /\ queues[i] > 0
                    /\ queues' = moved(i, TRUE, FALSE)
                    /\ uploaded' = uploaded + 1
                    /\ remote' = "multipart"
                    /\ UNCHANGED <<emitted, storage_objects, received, local_files>>
               [] stages[i] = "delete_files" ->
                    /\ queues[i] > 0
                    /\ queues' = moved(i, TRUE, FALSE)
                    /\ UNCHANGED <<emitted, uploaded, remote, storage_objects, received,
                                   local_files>>
               [] stages[i] \in Receivers ->
                    /\ queues[i] > 0
                    /\ queues' = moved(i, TRUE, FALSE)
                    /\ received' = received + 1
                    /\ IF stages[i] = "collect_data"
                       THEN UNCHANGED local_files
                       ELSE \E f \in pipeline.files : local_files' = local_files \cup {f}
                    /\ UNCHANGED <<emitted, uploaded, remote, storage_objects>>
               [] stages[i] = "delete_multiple_storage" ->
                    /\ \E r \in pipeline.remote_paths \cap storage_objects :
                          storage_objects' = storage_objects \ {r}
                    /\ UNCHANGED <<queues, emitted, uploaded, remote, received, local_files>>
    /\ UNCHANGED <<pipeline, stages, stage_done, returned, pc>>
    /\ UNCHANGED <<calls, error, schema_only, bonly, rvars, cvars>>

\* run(): a stage finishes once the stage before it has finished and its
\* input is used up. The uploading stage then completes the multipart upload,
\* delete-files then removes its files, write-files has then written all its
\* files, collect-data then emits the data it collected; the pipeline is
\* complete when the last stage has finished.
stage_finish ==
    /\ pc = "pipeline_run"
    /\ \E i \in DOMAIN stages :
          /\ ~stage_done[i]
          /\ upstream_done(i)
          /\ queues[i] = 0
          /\ stages[i] \in Sources => emitted = items_of(stages[i])
          /\ stages[i] = "delete_multiple_storage" =>
                pipeline.remote_paths \cap storage_objects = {}
          /\ stage_done' = [stage_done EXCEPT ![i] = TRUE]
          /\ remote' = IF stages[i] = "upload" THEN "complete" ELSE remote
          /\ storage_objects' = IF stages[i] = "upload"
                                THEN storage_objects \cup pipeline.remote_paths
                                ELSE storage_objects
          /\ local_files' = CASE stages[i] = "delete_files" -> local_files \ pipeline.files
                              [] stages[i] \in {"write_file", "write_files"} ->
                                    local_files \cup pipeline.files
                              [] OTHER -> local_files
          /\ pc' = IF i < Len(stages) THEN pc
                   ELSE IF stages[i] = "collect_data" THEN "pipeline_output"
                   ELSE "pipeline_done"
    /\ UNCHANGED <<pipeline, stages, queues, emitted, uploaded, received, returned>>
    /\ UNCHANGED <<calls, error, schema_only, bonly, rvars, cvars>>

\* run_and_return_first: the first item of the finished pipeline, the data
\* collected by the last stage, is returned
run_and_return_first ==
    /\ pc = "pipeline_output"
    /\ returned' = received
    /\ pc' = "pipeline_done"
    /\ UNCHANGED <<pipeline, stages, queues, stage_done, emitted, uploaded, local_files,
                   remote, storage_objects, received>>
    /\ UNCHANGED <<calls, error, schema_only, bonly, rvars, cvars>>

\* run(): a stage raises. The pipeline cancels all stages and propagates the
\* error; an unfinished multipart upload is aborted.
stage_raise ==
    /\ pc = "pipeline_run"
    /\ \E i \in DOMAIN stages :
          /\ ~stage_done[i]
          /\ error' = stages[i]
    /\ pc' = "pipeline_failed"
    /\ remote' = IF remote = "multipart" THEN "aborted" ELSE remote
    /\ UNCHANGED <<pipeline, stages, queues, stage_done, emitted, uploaded, local_files,
                   storage_objects, received, returned>>
    /\ UNCHANGED <<calls, schema_only, bonly, rvars, cvars>>

\* objects in the storage before a pipeline of the given kind runs
StorageBefore(kind) ==
    IF kind \in UploadKinds THEN {{}}
    ELSE IF kind \in DownloadKinds THEN {{"r1"}, {}}
    ELSE {{"r1", "r2"}, {"r1"}}

\* remote paths given to a pipeline of the given kind
RemotePathsOf(kind) ==
    IF kind = "delete_multiple" THEN SUBSET {"r1", "r2"} ELSE {{"r1"}}

InitPipeline ==
    /\ BackupIdle
    /\ RestoreIdle
    /\ CliIdle
    /\ pc = "pipeline_start"
    /\ calls = <<>>
    /\ error = ""
    /\ schema_only = FALSE
    /\ \E kind \in PipelineKinds, encrypt \in BOOLEAN, delete_after \in BOOLEAN :
          /\ kind \notin DOMAIN ReaderOf => ~delete_after
          /\ kind = "delete_multiple" => ~encrypt
          /\ \E paths \in RemotePathsOf(kind) :
                pipeline = [kind |-> kind, encrypt |-> encrypt, delete_after |-> delete_after,
                            files |-> FilesOf[kind], remote_paths |-> paths]
          /\ local_files = IF kind \in UploadKinds THEN FilesOf[kind] ELSE {}
          /\ storage_objects \in StorageBefore(kind)
    /\ stages = <<>>
    /\ queues = <<>>
    /\ stage_done = <<>>
    /\ emitted = 0
    /\ uploaded = 0
    /\ remote = "none"
    /\ received = 0
    /\ returned = NoData

NextPipeline ==
    \/ upload_data_pipeline
    \/ upload_file_pipeline
    \/ upload_files_tarball_pipeline
    \/ download_data_pipeline
    \/ download_file_pipeline
    \/ download_files_pipeline
    \/ delete_multiple_storage_pipeline
    \/ stage_step
    \/ stage_finish
    \/ run_and_return_first
    \/ stage_raise

SpecPipeline == InitPipeline /\ [][NextPipeline]_vars

\* ------------------------------------------------------------------------
\* Properties of the upload pipelines
\* ------------------------------------------------------------------------
\* the chain read, encrypt (if set), upload, delete-files (if set)
ExpectedChain ==
    <<ReaderOf[pipeline.kind]>>
    \o (IF pipeline.encrypt THEN <<"encrypt">> ELSE <<>>)
    \o <<"upload">>
    \o (IF pipeline.delete_after THEN <<"delete_files">> ELSE <<>>)

\* local files of the pipeline that have been removed
RemovedFiles == pipeline.files \ local_files

\* C23: the pipeline built by upload_file_pipeline and
\* upload_files_tarball_pipeline is read, encrypt (only when encrypt is
\* set), upload, delete-files (only when delete_after is set); a local file
\* is removed only when delete_after is set and the upload has completed with
\* every chunk, so never when the pipeline failed before that.
C23_DeleteAfterUpload ==
    pipeline.kind \in DOMAIN ReaderOf =>
        /\ pc # "pipeline_start" => stages = ExpectedChain
        /\ RemovedFiles # {} =>
              /\ pipeline.delete_after
              /\ remote = "complete"
              /\ uploaded = MaxChunks
              /\ RemovedFiles = pipeline.files
        /\ (pc = "pipeline_failed" /\ remote # "complete") => RemovedFiles = {}
        /\ ~pipeline.delete_after => RemovedFiles = {}
        /\ (pc = "pipeline_done" /\ pipeline.delete_after) => RemovedFiles = pipeline.files

\* C23 witness: an encrypting tarball pipeline with delete_after finished:
\* the object is complete and both files are gone.
C23_Witness ==
    /\ pc = "pipeline_done"
    /\ pipeline.kind = "tarball" /\ pipeline.encrypt /\ pipeline.delete_after
    /\ stages = <<"read_files_tarball", "encrypt", "upload", "delete_files">>
    /\ remote = "complete"
    /\ local_files = {}

\* the upload failed half-way with delete_after set: the files are kept
C23_FailedUpload ==
    /\ pc = "pipeline_failed" /\ error = "upload"
    /\ pipeline.delete_after
    /\ remote = "aborted" /\ uploaded = 1
    /\ local_files = pipeline.files

\* a pipeline without delete_after finished and kept its file
C23_Kept ==
    /\ pc = "pipeline_done"
    /\ pipeline.kind = "file" /\ ~pipeline.delete_after
    /\ remote = "complete"
    /\ local_files = {"f1"}

\* ========================================================================
\* Properties of TableBackup.restore: schema_only, retries, recorded parts
\* ========================================================================
\* operations restore() performs only to restore data
DataOnlyOps == {"create_s3_disk_restore_file", "restart_disk", "temporary_disks_enter",
                "temporary_disks_exit", "add_table", "download_data_part", "copy_part",
                "wait", "chown_detached_table_parts", "attach_part"}
\* operations that re-create a table object
TableObjectOps == {"attach_table", "create_table"}

\* C24: with schema_only set, restore() makes none of the calls that restore
\* data (restore marker, disk restart, temporary disks, download, copy,
\* attach of a part): no part is attached or placed in detached/, the restore
\* progress gets no table, part or disk, and the run ends right after the
\* table objects.
C24_SchemaOnly ==
    args.schema_only =>
        /\ \A i \in DOMAIN calls : calls[i].op \notin DataOnlyOps
        /\ attached = {} /\ detached = {}
        /\ restore_ctx = EmptyContext /\ dumped_ctx = EmptyContext
        /\ pc \notin {"cloud_storage_data", "data"}

\* C24 witness: a schema_only restore of a backup with parts on S3 disks
\* returned after it created the table objects.
C24_Witness ==
    /\ args.schema_only
    /\ pc = "restore_done"
    /\ has_s3_data
    /\ \E i \in DOMAIN calls : calls[i].op \in TableObjectOps /\ calls[i].res = 1
    /\ \A t \in {"a", "b"} : db_schema[t].exists

\* failed attempts of _restore_table_objects in this run; each is re-queued
Retries == Cardinality({i \in DOMAIN Attempts : Attempts[i].res = 0})
\* number of tables handed to _restore_table_objects
NTables == Cardinality(queue0)
\* n(n-1)/2
Pairs(n) == (n * (n - 1)) \div 2
\* _restore_table_objects has been entered in this run; creations fail only
\* for a missing dependency, the dependencies are acyclic and every
\* dependency of a queued table is queued too or exists
DepsOnlyRun ==
    /\ pc \notin {"restore", "error"}
    /\ queue0 # {}
    /\ faulty = {}
    /\ Acyclic
    /\ \A t \in queue0, u \in RTables :
          <<t, u>> \in deps => u \in queue0 \/ db_schema[u].exists

\* C25 (as claimed): when creations fail only for dependencies that are not
\* created yet (acyclic), the failed attempts of the run are at most as many
\* as the tables to restore.
C25_RetriesAtMostTables == DepsOnlyRun => Retries <= NTables

\* C25 (amended): under the same condition the consecutive failures are
\* fewer than the tables still queued, the failed attempts before the last
\* success are at most n(n-1)/2 - m(m-1)/2 for n tables of which m are still
\* queued, hence at most n(n-1)/2 over the run, and the loop ends with an
\* empty queue and no error.
C25_RetriesAtMostPairs ==
    DepsOnlyRun =>
        /\ InObjectsLoop =>
              /\ unprocessed # <<>> => Len(errors) < Len(unprocessed)
              /\ Retries - Len(errors) <= Pairs(NTables) - Pairs(Len(unprocessed))
        /\ Retries <= Pairs(NTables)
        /\ pc # "table_objects" => unprocessed = <<>> /\ errors = <<>>

\* C25 witness: five tables, b -> a -> d -> v queued in that order: six
\* failed attempts, every table created.
C25_Witness ==
    /\ DepsOnlyRun
    /\ pc = "objects_end"
    /\ NTables = 5
    /\ Retries = 6
    /\ unprocessed = <<>>
    /\ \A t \in queue0 : db_schema[t].exists

\* n(n+3)/2: with q tables queued a success comes after at most q failures
AttemptsBound(n) == (n * (n + 3)) \div 2

\* the attempts of a run are bounded by the number of tables alone
C26_Bounded ==
    /\ Len(Attempts) <= AttemptsBound(NTables)
    /\ pc = "table_objects" => unprocessed # <<>> /\ Len(errors) <= Len(unprocessed)

\* the loop of _restore_table_objects is left with an empty queue or with
\* consecutive failures that outnumber the queue
C26_Exit ==
    (pc = "table_objects" /\ pc' # "table_objects") =>
        /\ pc' = "objects_end"
        /\ unprocessed' = <<>> \/ Len(errors') > Len(unprocessed')

\* C26: _restore_table_objects terminates whatever the creation attempts
\* answer, a table that fails at every attempt included: the attempts of a
\* run never exceed n(n+3)/2 for n tables, and a started loop always reaches
\* its end, with an empty queue or by the stall abort.
C26_Terminates ==
    /\ [](C26_Bounded)
    /\ [][C26_Exit]_vars
    /\ (pc = "table_objects") ~> (pc = "objects_end")

\* C26 witness: the loop gave up on a table that failed at each of its
\* attempts, after the other tables were created.
C26_Witness ==
    /\ pc = "objects_end"
    /\ Len(errors) > Len(unprocessed)
    /\ unprocessed = <<"b">>
    /\ Cardinality({i \in DOMAIN Attempts : Attempts[i].arg = "b"}) >= 2
    /\ \A i \in DOMAIN Attempts : Attempts[i].arg = "b" => Attempts[i].res = 0
    /\ \A t \in queue0 \ {"b"} : db_schema[t].exists

\* tables of the queue with exactly one successful attempt in this run
CreatedOnce ==
    {t \in queue0 :
        Cardinality({i \in DOMAIN Attempts : Attempts[i].arg = t /\ Attempts[i].res = 1}) = 1}
\* the tables _restore_table_objects reports as failed: those of its error list
ReportedFailed == Range(errors)

\* C27: when the loop of _restore_table_objects is over, every table handed
\* to it was either created by exactly one successful attempt (and exists) or
\* is reported as failed (and does not exist), never both; the reported
\* tables are exactly those still in the queue, each has failed since the
\* last success, and the error list is non-empty only after the stall abort.
\* With keep_going the list returned holds each of them once.
C27_ExitPartition ==
    /\ pc = "objects_end" =>
          /\ CreatedOnce \cup ReportedFailed = queue0
          /\ CreatedOnce \cap ReportedFailed = {}
          /\ \A t \in queue0 :
                /\ t \in CreatedOnce => db_schema[t].exists
                /\ t \in ReportedFailed => ~db_schema[t].exists
                /\ t \notin CreatedOnce =>
                      \A i \in DOMAIN Attempts : Attempts[i].arg = t => Attempts[i].res = 0
          /\ ReportedFailed = Range(unprocessed)
          /\ Range(unprocessed) \subseteq Range(TrailingFailures(Attempts))
          /\ errors # <<>> => Len(errors) > Len(unprocessed)
    /\ pc \in {"cloud_storage_data", "data", "restore_done"} =>
          /\ Range(failed_tables) = Range(unprocessed)
          /\ Len(failed_tables) = Len(unprocessed)

\* C27 witness: the loop gave up with two tables that depend on each other
\* still queued, after it had created the other three.
C27_Witness ==
    /\ pc = "objects_end"
    /\ Len(unprocessed) = 2 /\ Len(errors) = 3
    /\ ReportedFailed = {"b", "v"}
    /\ CreatedOnce = {"a", "d", "s"}

\* calls that try to restore a part
PartOps == FetchOps \cup {"attach_part"}

\* no part whose copy, download or attach failed in this run is recorded as
\* restored, in the restore context or in its dumped file
C28_FailedNotRecorded ==
    \A i \in DOMAIN calls :
        (calls[i].op \in PartOps /\ calls[i].res = 0) =>
            /\ calls[i].arg \notin restore_ctx.parts
            /\ calls[i].arg \notin dumped_ctx.parts

C28_Step ==
    \* add_part only after a successful attach_part of the same step
    /\ \A p \in restore_ctx'.parts \ restore_ctx.parts :
          \/ run' # run
          \/ \E i \in NewIdx("attach_part", p) : NewCalls[i].res = 1
    \* a new run starts from the dumped record
    /\ run' # run => restore_ctx'.parts = dumped_ctx.parts
    \* a table whose data is restored without raising: every part that is
    \* not recorded is attempted, unless it is skipped as cloud storage
    /\ (pc = "data" /\ data_todo # <<>> /\ pc' = "data_wait") =>
          \A p \in Range(RPartsOf[Head(data_todo)]) :
             (p \notin restore_ctx.parts
              /\ ~(RDiskOf[p] \in CloudStorageDisks /\ args.skip_cloud_storage))
             => \/ p \in Range(attach_parts')
                \/ \E i \in DOMAIN NewCalls :
                      NewCalls[i].op \in PartOps /\ NewCalls[i].arg = p
    \* and after wait() and the ownership fix every part to attach is attached
    /\ (pc = "data_wait" /\ pc' = "data_dump") =>
          \A p \in Range(attach_parts) : NewIdx("attach_part", p) # {}

\* C28: a part is recorded as restored only by a step in which attach_part
\* succeeded for it; a part whose download or copy failed (skipped under
\* keep_going) or whose attach failed is not recorded, so a later run, which
\* starts from the dumped record, attempts it again when it restores the
\* data of its table.
C28_RecordedAfterAttach == [](C28_FailedNotRecorded) /\ [][C28_Step]_vars

\* C28 witness: the attach of q1 failed in the first run; the second run
\* downloaded and attached it again and recorded it.
C28_Witness ==
    /\ run = 2
    /\ "q1" \in restore_ctx.failed
    /\ "q1" \in restore_ctx.parts
    /\ \E i \in DOMAIN calls : calls[i] = Call("download_data_part", "q1", 1)
    /\ \E i \in DOMAIN calls : calls[i] = Call("attach_part", "q1", 1)

\* the download of q1 failed under keep_going: the part is skipped and is
\* not recorded, while q2 of the same table is
C28_SkippedDownload ==
    /\ args.keep_going
    /\ \E i \in DOMAIN calls : calls[i] = Call("download_data_part", "q1", 0)
    /\ "q1" \notin restore_ctx.parts
    /\ "q2" \in restore_ctx.parts

\* the tables data may be restored for: merge-tree tables of the filtered
\* backup tables that _restore_tables did not report as failed
DataTables ==
    {t \in Range(tables_meta) : is_merge_tree(REngine[t]) /\ t \notin Range(failed_tables)}
\* the tables the data calls of this run were made for
DataCallTables ==
    {TableOfRPart(calls[i].arg) : i \in {k \in DOMAIN calls : calls[k].op \in PartOps}}
    \cup {calls[i].arg : i \in {k \in DOMAIN calls : calls[k].op \in
                                   {"add_table", "wait", "chown_detached_table_parts"}}}

\* C29: restore() restores data only for the merge-tree tables of the
\* filtered backup tables that are not in the list of failed tables: with
\* keep_going no part of a failed table is downloaded, copied or attached,
\* no data step is run for it, and none of its parts is in the DB.
C29_NoDataForFailedTables ==
    /\ DataCallTables \subseteq DataTables
    /\ Range(data_todo) \subseteq DataTables
    /\ \A t \in Range(failed_tables) :
          /\ args.keep_going
          /\ PartsOfTables({t}) \cap (attached \cup detached) = {}

\* C29 witness: with keep_going the replicated table b failed to be
\* created; the data of table a was restored and nothing was done for q3.
C29_Witness ==
    /\ args.keep_going
    /\ pc = "restore_done"
    /\ "b" \in Range(failed_tables)
    /\ "a" \in DataCallTables
    /\ "q1" \in attached
    /\ "q3" \notin attached \cup detached

\* ========================================================================
\* Properties of TableBackup._restore_table_object: cleanup after a failure
\* ========================================================================
\* the drop request _restore_table_object issues for table t
DropOp(t) == IF is_dictionary(t) THEN "drop_dictionary_if_exists" ELSE "drop_table_if_exists"

\* positions of the _restore_table_object calls that raised
FailedAttempts ==
    {i \in DOMAIN calls : calls[i].op = "restore_table_object" /\ calls[i].res = 0}

\* no _restore_table_object call on table t follows position i
LastAttempt(i, t) ==
    \A j \in (i + 1)..Len(calls) : ~(calls[j].op = "restore_table_object" /\ calls[j].arg = t)

\* C31: whenever _restore_table_object raises, the failed CREATE is followed
\* by a drop-if-exists of the table (drop_dictionary_if_exists for a
\* dictionary) as the last request of the call, so a table that is re-queued
\* or reported as failed does not exist in the DB, also when ATTACH made the
\* table and RESTORE REPLICA failed.
C31_DropBeforeRaise ==
    /\ \A i \in FailedAttempts :
          LET t == calls[i].arg IN
          /\ \E k \in {i + 2, i + 3} :
                /\ IsCall(k, "create_table", t) /\ calls[k].res = 0
                /\ IsCall(k + 1, DropOp(t), t)
                /\ \A j \in (i + 1)..(k - 1) :
                      calls[j].op \in {"attach_table", "restore_replica"}
                /\ (k + 2) \in DOMAIN calls =>
                      calls[k + 2].op \notin {"attach_table", "restore_replica", "create_table"}
          /\ LastAttempt(i, t) => ~db_schema[t].exists
    /\ \A t \in Range(errors) \cup Range(failed_tables) : ~db_schema[t].exists

\* C31 witness: ATTACH made the replicated table b, RESTORE REPLICA failed,
\* CREATE failed, the table was dropped and is re-queued, absent from the DB
C31_Witness ==
    /\ pc = "table_objects"
    /\ "b" \in Range(unprocessed) /\ "b" \in Range(errors)
    /\ ~db_schema["b"].exists
    /\ \E i \in FailedAttempts :
          /\ calls[i + 1] = Call("attach_table", "b", 1)
          /\ calls[i + 2] = Call("restore_replica", "b", 0)
          /\ calls[i + 3] = Call("create_table", "b", 0)
          /\ calls[i + 4] = Call("drop_table_if_exists", "b", 1)

\* the dictionary d failed for a missing dependency and was dropped with
\* drop_dictionary_if_exists; it is reported as failed and is not in the DB
C31_Dictionary ==
    /\ "d" \in Range(failed_tables)
    /\ ~db_schema["d"].exists
    /\ \E i \in FailedAttempts :
          /\ calls[i + 1] = Call("attach_table", "d", 0)
          /\ calls[i + 2] = Call("create_table", "d", 0)
          /\ calls[i + 3] = Call("drop_dictionary_if_exists", "d", 1)

====
